---- MODULE Spec2Model ----
(***************************************************************************)
(* A model of the fund-flow ingestion scripts of cwjcw/mystock:            *)
(* the stock-code normalizers, the proxy-retry helpers, the rate limiter, *)
(* the relational writers and the concurrent fetch orchestrator.           *)
(*                                                                         *)
(* Strings are sequences of one-character strings, so that strip, upper,   *)
(* split and slicing are computed as Python computes them.                 *)
(***************************************************************************)
EXTENDS Integers, Sequences, FiniteSets, TLC

VARIABLES
    \* ---- code normalizers (scripts/fund_flow.py, scripts/tx_hist_daily.py)
    raw,            \* the input string handed to the normalizers
    npc,            \* "input" before the call, "parsed" after it
    parsed,         \* result of fund_flow.parse_stock_code
    tsParsed,       \* result of tx_hist_daily.normalize_ts_code
    reparsed,       \* parse_stock_code of the "code.EXCHANGE" string of parsed
    dotted,         \* for an input e+c: what the normalizers return for c.E
    \* ---- relational writers (fund_flow.save_to_sqlite, minute_history_em.save_rows)
    backend,        \* "sqlite" or "mysql": the store the run writes to
    db,             \* committed content: [flow, profile], each a set of rows
    lastFlow,       \* per key, the values of the most recent committed upsert
    lastCall,       \* the most recent writer call: what it was given and its outcome
    \* ---- RateLimiter (scripts/tushare_minute_history.py, scripts/minute_history_em.py)
    max_calls,      \* self.max_calls
    period,         \* self.period_seconds, in clock ticks
    calls,          \* self.calls: the timestamps kept by the limiter
    clock,          \* time.monotonic(), in ticks
    rlPc,           \* where the caller of wait() is: "idle", "loop" or "sleep"
    wakeAt,         \* the time the running time.sleep() ends
    slept,          \* whether the current or last wait() has slept
    admitted,       \* per tick, the number of calls wait() has let through
    \* ---- proxy fallback (fund_flow._call_with_proxy_retry, realtime_fund_flow.fetch_rank,
    \*      serverchan_fund_alert.fetch_fund_flow)
    proxyEnv,       \* whether one of http_proxy, https_proxy, HTTP_PROXY, HTTPS_PROXY is set
    fetchLog,       \* the last two logical fetches: the upstream calls of each
    fetches,        \* the number of logical fetches made so far
    \* ---- fetch orchestrator and loop drivers (scripts/daily_bulk_flow.py,
    \*      scripts/realtime_fund_flow.py main)
    mode,           \* the driver that runs
    runPc,          \* where the driver's main thread is
    codes,          \* the codes submitted to the executor
    pool,           \* max(1, workers): the size of the thread pool
    task,           \* per submitted code: the state of its _worker call
    flows_collected,\* flows_collected / flows_batch
    profile_map,    \* profile_map / profile_batch
    warnings,       \* what the tasks have logged with LOGGER.warning
    handed,         \* the writer calls of the current run: arguments and outcome
    rounds,         \* scheduler wake-ups or polls made so far
    writerErrors,   \* writer calls that raised, over all runs of the driver
    \* ---- daily_bulk_flow.run_full_range
    rgPc,           \* "start", "loop", or how the call ended
    end_date,       \* the parsed end date, as a day number; Unset if it does not parse
    start_date,     \* the earliest date of the sample code
    current,        \* the loop variable
    batches,        \* the dates run_for_date was called for, in call order
    \* ---- daily_bulk_flow.scheduler_loop against the wall clock
    wall,           \* the local wall clock, in ticks since a Monday 00:00
    target,         \* the wake-up time the loop has computed
    schPc,          \* "top", "sleep", "woken", "batch", or how the loop ended
    started,        \* the batches started: the date passed and the time of the call
    \* ---- the MySQL writers of tx_hist_daily, minute_history_em, baostock_hist_daily
    mysql,          \* per table, the committed rows
    lastUpsert,     \* the most recent committed writer call: its last row, the row found
    \* ---- data/all_codes.json and its consumers
    cacheFile,      \* the file: missing, not JSON, or the JSON value it holds
    lastLoad,       \* the most recent load: the consumer, the file it found, the outcome
    \* ---- a run of scripts/fetch_today_fund_flow.py
    osEnv,          \* the environment and the arguments of the process
    ftPc,           \* "import", "main" or "done"
    sessionProxies, \* SESSION.proxies of daily_bulk_flow
    events,         \* the network requests and store operations issued, in order
    exitStatus,     \* the exit status of the process once it is done
    \* ---- web/app.py: trades and the fund page
    trade_logs,     \* per trade id: user_id, symbol, and whether the row is there
    fund_holdings,  \* per user: the shares of the fund_holdings row
    navRecord,      \* the latest row of fund_nav_history with its positions
    lastReq         \* the most recent request: user, handler, status, rows drawn on

normVars == <<raw, npc, parsed, tsParsed, reparsed, dotted>>
storeVars == <<backend, db, lastFlow, lastCall>>
rateVars == <<max_calls, period, calls, clock, rlPc, wakeAt, slept, admitted>>
proxyVars == <<proxyEnv, fetchLog, fetches>>
runVars == <<mode, runPc, codes, pool, task, flows_collected, profile_map, warnings,
             handed, rounds, writerErrors>>

rangeVars == <<rgPc, end_date, start_date, current, batches>>

earlierVars == <<normVars, storeVars, rateVars, proxyVars, runVars>>
schedVars == <<wall, target, schPc, started>>
upsertVars == <<mysql, lastUpsert>>
cacheVars == <<cacheFile, lastLoad>>
todayVars == <<osEnv, ftPc, sessionProxies, events, exitStatus>>
webVars == <<trade_logs, fund_holdings, navRecord, lastReq>>
laterVars == <<rangeVars, schedVars, upsertVars, cacheVars, todayVars, webVars>>
\* ---- the variables of the remaining components
VARIABLES
    \* ---- one numeric cell through the mappers (fund_flow.save_to_sqlite, baostock_hist_daily)
    cell, \* the value row.get(...) returns for the cell
    fieldPc, \* "row" before the conversion, "mapped" after it
    mapped  \* the converter applied and what it returned

fieldVars == <<cell, fieldPc, mapped>>

VARIABLES
    \* ---- daily_bulk_flow.fetch_all_stock_codes: the page loop
    pn, \* the page number
    pagePc, \* "top", "try", "done" or "raised"
    tries, \* the loop variable attempt of the for loop
    delay, \* delay, in seconds
    gets, \* the GET requests made for the current page
    sleeps  \* the sleeps made for the current page: base delay and jitter

pagesVars == <<pn, pagePc, tries, delay, gets, sleeps>>

VARIABLES
    \* ---- web/app.py: _rate_check_and_consume and the requests of the RSS routes
    limitR, \* RATE_LIMIT_REQUESTS
    rssClock, \* time.time(), in ticks
    buckets, \* _RL_BUCKETS: per key, the timestamps kept
    req, \* per request: where it is, the key it checks, the time it read
    accepted  \* per key, the times read by the requests that passed, in the order of passing

bucketVars == <<limitR, rssClock, buckets, req, accepted>>

VARIABLES
    \* ---- daily_bulk_flow.main: the command line and the driver it calls
    cliArgs, \* args, as parse_args() returns them
    cliPc, \* "parsed" before the chain, "called" after it
    entered  \* the driver calls made, in order

cliVars == <<cliArgs, cliPc, entered>>

VARIABLES
    \* ---- serverchan_fund_alert: the polls of one monitor run
    notified, \* notified: per code the level last pushed, 0 for a code not in the dict
    alerted, \* the (code, level) pairs triggered so far
    repeated, \* the (code, level) pairs triggered more than once
    polls, \* the calls of poll_once made
    lastPoll  \* the most recent poll: the levels it saw, notified before it, what it triggered

alertVars == <<notified, alerted, repeated, polls, lastPoll>>

VARIABLES
    \* ---- web/app.py: _start_daily_snapshot_worker and its thread
    thread_started, \* _DAILY_SNAPSHOT_THREAD_STARTED
    threads, \* the worker threads started
    startCalls, \* the calls of _start_daily_snapshot_worker made
    snapDate, \* the calendar date in China, as a day number
    last_recorded, \* last_recorded of the worker, Unset for None
    snapLog  \* the passes of the worker's loop: the date, what the pass did, the users recorded

snapVars == <<thread_started, threads, startCalls, snapDate, last_recorded, snapLog>>

VARIABLES
    \* ---- the minute feed
    feedSymbols, \* the names and symbols given to rss_fund_flow.py
    rssFile, \* the guids of the items of the RSS file, oldest first
    feedRuns, \* the runs of run_once so far
    lastRun  \* the last run of run_once: the file before, the items, the file before trimming

feedVars == <<feedSymbols, rssFile, feedRuns, lastRun>>

VARIABLES
    \* ---- the holdings replayed from the trade log
    bookPc, \* where _build_portfolio is: in its loop or returned
    holdings, \* the entry of each symbol
    realized, \* the realized sums: per symbol and in total for the period, and of all time
    replayed, \* the rows replayed so far
    lastTrade, \* the last row replayed and the quantity held before it
    returned  \* the symbols of the holdings returned

bookVars == <<bookPc, holdings, realized, replayed, lastTrade, returned>>

VARIABLES
    \* ---- the routes of the RSS feed
    RSS_PREFIX, \* the setting RSS_PREFIX
    tokenOwner, \* the username of the user of each RSS token
    feedRequest  \* the last request for a feed: its route, first path segment, token and status

gateVars == <<RSS_PREFIX, tokenOwner, feedRequest>>

thirdVars == <<fieldVars, pagesVars, bucketVars, cliVars, alertVars, snapVars, feedVars, bookVars, gateVars>>
\* ---- end of the variables of the remaining components

vars == <<earlierVars, laterVars, thirdVars>>

\* what an operation of one component leaves alone
notNorm == <<storeVars, rateVars, proxyVars, runVars, laterVars, thirdVars>>
notStore == <<normVars, rateVars, proxyVars, runVars, laterVars, thirdVars>>
notRate == <<normVars, storeVars, proxyVars, runVars, laterVars, thirdVars>>
notProxy == <<normVars, storeVars, rateVars, runVars, laterVars, thirdVars>>
notRun == <<normVars, rateVars, proxyVars, laterVars, thirdVars>>
notRange == <<earlierVars, schedVars, upsertVars, cacheVars, todayVars, webVars, thirdVars>>
notSched == <<earlierVars, rangeVars, upsertVars, cacheVars, todayVars, webVars, thirdVars>>
notUpsert == <<earlierVars, rangeVars, schedVars, cacheVars, todayVars, webVars, thirdVars>>
notCache == <<earlierVars, rangeVars, schedVars, upsertVars, todayVars, webVars, thirdVars>>
notToday == <<earlierVars, rangeVars, schedVars, upsertVars, cacheVars, webVars, thirdVars>>
notWeb == <<earlierVars, rangeVars, schedVars, upsertVars, cacheVars, todayVars, thirdVars>>

\* ---- what the remaining components leave alone
notField == <<earlierVars, laterVars, pagesVars, bucketVars, cliVars, alertVars, snapVars, feedVars, bookVars, gateVars>>
notPages == <<earlierVars, laterVars, fieldVars, bucketVars, cliVars, alertVars, snapVars, feedVars, bookVars, gateVars>>
notBucket == <<earlierVars, laterVars, fieldVars, pagesVars, cliVars, alertVars, snapVars, feedVars, bookVars, gateVars>>
notCli == <<earlierVars, laterVars, fieldVars, pagesVars, bucketVars, alertVars, snapVars, feedVars, bookVars, gateVars>>
notAlert == <<earlierVars, laterVars, fieldVars, pagesVars, bucketVars, cliVars, snapVars, feedVars, bookVars, gateVars>>
notSnap == <<earlierVars, laterVars, fieldVars, pagesVars, bucketVars, cliVars, alertVars, feedVars, bookVars, gateVars>>
notFeed == <<earlierVars, laterVars, fieldVars, pagesVars, bucketVars, cliVars, alertVars, snapVars, bookVars, gateVars>>
notBook == <<earlierVars, laterVars, fieldVars, pagesVars, bucketVars, cliVars, alertVars, snapVars, feedVars, gateVars>>
notGate == <<earlierVars, laterVars, fieldVars, pagesVars, bucketVars, cliVars, alertVars, snapVars, feedVars, bookVars>>
\* ---- end of what the remaining components leave alone

(***************************************************************************)
(* Characters and Python's str methods                                     *)
(***************************************************************************)
\* str(s): a TLA+ string as a sequence of characters is written out by hand.
AsciiDigits == {"0", "1", "2", "3", "4", "5", "6", "7", "8", "9"}

\* Characters outside ASCII for which Python's str.isdigit() is true:
\* FULLWIDTH DIGIT SIX (U+FF16), ARABIC-INDIC DIGIT THREE (U+0663),
\* SUPERSCRIPT TWO (U+00B2).  Each is one character of the input.
UnicodeDigits == {"U+FF16", "U+0663", "U+00B2"}

LowerLetters == {"s", "h", "z", "b", "j", "x", "a"}
UpperLetters == {"S", "H", "Z", "B", "J", "X", "A"}

Whitespace == {" "}

\* str.upper() / str.lower() on one character
UpperChar(c) ==
    CASE c = "s" -> "S" [] c = "h" -> "H" [] c = "z" -> "Z" [] c = "b" -> "B"
      [] c = "j" -> "J" [] c = "x" -> "X" [] c = "a" -> "A" [] c = "n" -> "N"
      [] c = "u" -> "U" [] c = "l" -> "L" [] OTHER -> c

LowerChar(c) ==
    CASE c = "S" -> "s" [] c = "H" -> "h" [] c = "Z" -> "z" [] c = "B" -> "b"
      [] c = "J" -> "j" [] c = "X" -> "x" [] c = "A" -> "a" [] c = "N" -> "n"
      [] c = "U" -> "u" [] c = "L" -> "l" [] OTHER -> c

\* a conversion of the exchange part that folds to lower case
LowerCased(s) == [i \in 1..Len(s) |-> LowerChar(s[i])]

Upper(s) == [i \in 1..Len(s) |-> UpperChar(s[i])]
Lower(s) == [i \in 1..Len(s) |-> LowerChar(s[i])]

\* str.isdigit(): non-empty and every character is a digit (ASCII or not)
IsDigit(s) == Len(s) > 0 /\ \A i \in 1..Len(s) : s[i] \in AsciiDigits \cup UnicodeDigits

\* the stricter test the data model asks for: ASCII digits only
IsAsciiDigits(s) == Len(s) > 0 /\ \A i \in 1..Len(s) : s[i] \in AsciiDigits

\* str.strip(): drop leading and trailing whitespace
RECURSIVE LStrip(_)
LStrip(s) == IF Len(s) > 0 /\ Head(s) \in Whitespace THEN LStrip(Tail(s)) ELSE s

RECURSIVE RStrip(_)
RStrip(s) ==
    IF Len(s) > 0 /\ s[Len(s)] \in Whitespace THEN RStrip(SubSeq(s, 1, Len(s) - 1)) ELSE s

Strip(s) == RStrip(LStrip(s))

\* s[-n:]
LastN(s, n) == IF Len(s) <= n THEN s ELSE SubSeq(s, Len(s) - n + 1, Len(s))

\* s[n:]
DropN(s, n) == IF Len(s) <= n THEN <<>> ELSE SubSeq(s, n + 1, Len(s))

\* s.startswith(p)
StartsWith(s, p) == Len(s) >= Len(p) /\ SubSeq(s, 1, Len(p)) = p

\* "." in s
HasDot(s) == \E i \in 1..Len(s) : s[i] = "."

\* s.split("."): the list of the pieces between the dots
RECURSIVE SplitDot(_)
SplitDot(s) ==
    IF ~HasDot(s) THEN <<s>>
    ELSE LET i == CHOOSE k \in 1..Len(s) : s[k] = "." /\ \A m \in 1..(k - 1) : s[m] # "."
         IN  <<SubSeq(s, 1, i - 1)>> \o SplitDot(SubSeq(s, i + 1, Len(s)))

(***************************************************************************)
(* Code normalizers                                                        *)
(***************************************************************************)
SH == <<"S", "H">>
SZ == <<"S", "Z">>
BJ == <<"B", "J">>
Exchanges == {SH, SZ, BJ}

\* cleaned.startswith((p1, p2, ...)) for three-character prefixes
StartsWithAny(s, ps) == \E p \in ps : StartsWith(s, p)

ShPrefixes == {<<"6","0","0">>, <<"6","0","1">>, <<"6","0","3">>, <<"6","0","5">>,
               <<"6","8","8">>}
SzPrefixes == {<<"0","0","0">>, <<"0","0","1">>, <<"0","0","2">>, <<"0","0","3">>,
               <<"3","0","0">>, <<"3","0","1">>}
\* fund_flow.py lists "688" among the BJ prefixes too; the SH branch is tested first
BjPrefixesFundFlow == {<<"4","3","0">>, <<"6","8","8">>, <<"8","3","0">>, <<"8","3","1">>,
                       <<"8","3","3">>, <<"8","3","5">>, <<"8","3","6">>, <<"8","3","8">>,
                       <<"8","3","9">>, <<"8","7","0">>, <<"8","7","1">>, <<"8","7","2">>}
BjPrefixesTs == {<<"4","3","0">>, <<"8","3","0">>, <<"8","3","1">>, <<"8","3","3">>,
                 <<"8","3","5">>, <<"8","3","6">>, <<"8","3","8">>, <<"8","3","9">>,
                 <<"8","7","0">>, <<"8","7","1">>, <<"8","7","2">>}

\* the if/elif chain of fund_flow.parse_stock_code for a bare code
InferExchange(cleaned) ==
    IF StartsWithAny(cleaned, ShPrefixes) THEN SH
    ELSE IF StartsWithAny(cleaned, SzPrefixes) THEN SZ
    ELSE IF StartsWithAny(cleaned, BjPrefixesFundFlow) THEN BJ
    ELSE SH

\* the if chain of tx_hist_daily.normalize_ts_code for a bare code
InferExchangeTs(cleaned) ==
    IF StartsWithAny(cleaned, ShPrefixes) THEN SH
    ELSE IF StartsWithAny(cleaned, SzPrefixes) THEN SZ
    ELSE IF StartsWithAny(cleaned, BjPrefixesTs) THEN BJ
    ELSE SH

Invalid == [ok |-> FALSE, code |-> <<>>, exchange |-> <<>>]
Identifier(code, exchange) == [ok |-> TRUE, code |-> code, exchange |-> exchange]

\* the final validation of parse_stock_code: ValueError unless the code is six
\* isdigit() characters and the exchange is SH, SZ or BJ
ValidateParsed(stock, exchange) ==
    IF Len(stock) # 6 \/ ~IsDigit(stock) THEN Invalid
    ELSE IF exchange \notin Exchanges THEN Invalid
    ELSE Identifier(stock, exchange)

\* fund_flow.parse_stock_code: ok = FALSE stands for the ValueError it raises
parse_stock_code(code) ==
    LET r == Strip(code) IN
    IF Len(r) = 0 THEN Invalid
    ELSE IF HasDot(r) THEN
        LET parts == SplitDot(r) IN
        IF Len(parts) # 2 THEN Invalid
        ELSE ValidateParsed(LastN(parts[1], 6), Upper(parts[2]))
    ELSE
        LET lowered == Lower(r) IN
        IF StartsWith(lowered, <<"s","h">>) \/ StartsWith(lowered, <<"s","z">>)
              \/ StartsWith(lowered, <<"b","j">>)
        THEN ValidateParsed(LastN(DropN(r, 2), 6), Upper(SubSeq(lowered, 1, 2)))
        ELSE LET cleaned == LastN(r, 6) IN
             IF ~IsDigit(cleaned) THEN Invalid
             ELSE ValidateParsed(cleaned, InferExchange(cleaned))

\* the dotted branch of normalize_ts_code: the two parts are returned as they are
TsDotted(parts) == Identifier(LastN(parts[1], 6), Upper(parts[2]))

\* tx_hist_daily.normalize_ts_code: ok = FALSE stands for the None it returns;
\* the returned "code.EXCHANGE" string is kept as its two parts
normalize_ts_code(code) ==
    LET r == Upper(Strip(code)) IN
    IF Len(r) = 0 THEN Invalid
    ELSE IF HasDot(r) THEN
        LET parts == SplitDot(r) IN
        IF Len(parts) # 2 THEN Invalid ELSE TsDotted(parts)
    ELSE LET cleaned == LastN(r, 6) IN
         IF ~IsDigit(cleaned) THEN Invalid
         ELSE Identifier(cleaned, InferExchangeTs(cleaned))

\* tushare_minute_history.code_to_ts_code: the same statements as
\* normalize_ts_code, line for line
code_to_ts_code(code) ==
    LET r == Upper(Strip(code)) IN
    IF Len(r) = 0 THEN Invalid
    ELSE IF HasDot(r) THEN
        LET parts == SplitDot(r) IN
        IF Len(parts) # 2 THEN Invalid ELSE TsDotted(parts)
    ELSE LET cleaned == LastN(r, 6) IN
         IF ~IsDigit(cleaned) THEN Invalid
         ELSE Identifier(cleaned, InferExchangeTs(cleaned))

\* f"{code}.{exchange}": the string form of an identifier
Serialize(id) == id.code \o <<".">> \o id.exchange

(***************************************************************************)
(* Values, rows and the mapper of save_to_sqlite                           *)
(***************************************************************************)
\* A raw numeric field of an upstream row: None, a number, or a string that
\* float() rejects (v = 0: the blank string, v = 1: text such as "abc").
\* Percentages are counted in thousandths, amounts in yuan.
NoneV == [t |-> "none", v |-> 0]
Num(n) == [t |-> "num", v |-> n]
BadStr(k) == [t |-> "bad", v |-> k]

\* A stored REAL column: NULL or a number
Null == [t |-> "null", v |-> 0]
Real(n) == [t |-> "real", v |-> n]

\* Optional[str]
NoText == [t |-> "none", s |-> ""]
Text(s) == [t |-> "str", s |-> s]

\* round half to even of n / d, d > 0 (Python's round() on a decimal tie)
RoundDiv(n, d) ==
    LET q == n \div d
        r == n % d
    IN  IF 2 * r < d THEN q
        ELSE IF 2 * r > d THEN q + 1
        ELSE IF q % 2 = 0 THEN q ELSE q + 1

\* float('nan'): a float that is not a number; the value pandas puts in a
\* cell of a DataFrame that has no value
NaNV == [t |-> "nan", v |-> 0]
\* a str, character by character
Str(s) == [t |-> "str", v |-> 0, s |-> s]
\* a value that is neither a number nor a string, such as a list
ListV == [t |-> "list", v |-> 0]
\* an exception of class e leaving a call
Raised(e) == [t |-> e, v |-> 0]

DigitVal(c) ==
    CASE c = "0" -> 0 [] c = "1" -> 1 [] c = "2" -> 2 [] c = "3" -> 3 [] c = "4" -> 4
      [] c = "5" -> 5 [] c = "6" -> 6 [] c = "7" -> 7 [] c = "8" -> 8 [] c = "9" -> 9

\* the number a string of ASCII digits writes
RECURSIVE DecValue(_)
DecValue(s) ==
    IF s = <<>> THEN 0
    ELSE 10 * DecValue(SubSeq(s, 1, Len(s) - 1)) + DigitVal(s[Len(s)])

AllAsciiDigits(s) == \A i \in 1..Len(s) : s[i] \in AsciiDigits

\* digits [ "." [digits] ] or "." digits, with at least one digit
IsDecimal(body) ==
    LET dots == {i \in 1..Len(body) : body[i] = "."} IN
    /\ Cardinality(dots) <= 1
    /\ Len(body) > Cardinality(dots)
    /\ \A i \in (1..Len(body)) \ dots : body[i] \in AsciiDigits

\* the place of the dot of a decimal, the place after its end when it has none
DotAt(body) ==
    IF \E i \in 1..Len(body) : body[i] = "."
      THEN CHOOSE i \in 1..Len(body) : body[i] = "."
      ELSE Len(body) + 1

\* the thousandths of the digits before place at and of the digits after it
ThousandthsAt(body, at) ==
    1000 * DecValue(SubSeq(body, 1, at - 1))
        + DecValue(SubSeq(SubSeq(body, at + 1, Len(body)) \o <<"0", "0", "0">>, 1, 3))

\* the thousandths written by a decimal: the fraction is cut after 3 digits
Thousandths(body) == ThousandthsAt(body, DotAt(body))

\* float(str) of a string without surrounding whitespace and without a sign:
\* "nan" in any case, or a decimal; anything else is a ValueError
FloatOfBody(body, sgn) ==
    IF Lower(body) = <<"n", "a", "n">> THEN NaNV
    ELSE IF IsDecimal(body) THEN Real(sgn * Thousandths(body))
    ELSE Raised("ValueError")

\* an optional sign goes before the body
HasSign(t) == Len(t) > 0 /\ t[1] \in {"+", "-"}

FloatOfStripped(t) ==
    FloatOfBody(IF HasSign(t) THEN Tail(t) ELSE t,
                IF HasSign(t) /\ t[1] = "-" THEN 0 - 1 ELSE 1)

\* float(str): surrounding whitespace is ignored; an optional sign, then a
\* decimal or "nan" in any case; anything else is a ValueError.  (Exponents,
\* underscores and "inf" are not written in the inputs used here.)
FloatOfText(s) == FloatOfStripped(Strip(s))

\* float(val)
float(val) ==
    CASE val.t = "none" -> Raised("TypeError")
      [] val.t = "num" -> Real(val.v)
      [] val.t = "nan" -> NaNV
      [] val.t = "bad" -> Raised("ValueError")
      [] val.t = "str" -> FloatOfText(val.s)
      [] val.t = "list" -> Raised("TypeError")

\* except (TypeError, ValueError): return None
NoneIfRaised(f) == IF f.t \in {"TypeError", "ValueError"} THEN Null ELSE f

\* to_float: None stays None; float(val), and None when it raises TypeError
\* or ValueError
to_float(val) == IF val.t = "none" THEN Null ELSE NoneIfRaised(float(val))

\* round(fval, 2): thousandths in, thousandths out; round(nan, 2) is nan
Round2(f) ==
    IF f = Null THEN Null
    ELSE IF f.t # "real" THEN f
    ELSE Real(RoundDiv(f.v, 10) * 10)

\* to_pct: None when to_float gives None, else round(fval, 2)
to_pct(val) == Round2(to_float(val))

\* round(fval / 1e8, 4) of a count of 1 / per yuan: units of 1e-4
\* hundred-million out
RoundYi(f, per) ==
    IF f = Null THEN Null
    ELSE IF f.t # "real" THEN f
    ELSE Real(RoundDiv(f.v, 10000 * per))

\* to_amount: round(fval / 1e8, 4); yuan in, units of 1e-4 hundred-million out.
\* A number counts whole yuan; the float of a string counts thousandths of a yuan.
to_amount(val) == RoundYi(to_float(val), IF val.t = "str" THEN 1000 ELSE 1)

S600519 == <<"6","0","0","5","1","9">>
S000001 == <<"0","0","0","0","0","1">>
S430047 == <<"4","3","0","0","4","7">>

NoDate == ""
Dates == {"2024-01-02"}

\* the numeric fields of two upstream rows
QuoteA == [close |-> Num(1700), pct_chg |-> Num(12345),
           main |-> Num(123456789), main_ratio |-> Num(5554),
           ultra_large |-> Num(-250005000), ultra_large_ratio |-> Num(-1235),
           large |-> Num(99995000), large_ratio |-> Num(15),
           medium |-> Num(0), medium_ratio |-> Num(0),
           small |-> Num(-4999), small_ratio |-> Num(-5)]
QuoteB == [close |-> Num(1688), pct_chg |-> BadStr(0),
           main |-> NoneV, main_ratio |-> BadStr(1),
           ultra_large |-> Num(10000), ultra_large_ratio |-> Num(1000),
           large |-> BadStr(1), large_ratio |-> NoneV,
           medium |-> Num(-15000), medium_ratio |-> Num(-25),
           small |-> Num(5000), small_ratio |-> Num(125)]
Quotes == {QuoteA, QuoteB}

Names == {NoText, Text("Moutai")}

\* a dict of fetch_fund_flow_dayk, enriched with "name" by the orchestrator
RawFlow(code, exchange, date, q, name) ==
    [code |-> code, exchange |-> exchange, date |-> date, q |-> q, name |-> name]

\* the tuple save_to_sqlite appends to flow_rows for one dict
FlowRow(row) ==
    [code |-> row.code, exchange |-> row.exchange, date |-> row.date,
     close |-> to_float(row.q.close),
     pct_chg |-> to_pct(row.q.pct_chg),
     main |-> to_amount(row.q.main),
     main_ratio |-> to_pct(row.q.main_ratio),
     ultra_large |-> to_amount(row.q.ultra_large),
     ultra_large_ratio |-> to_pct(row.q.ultra_large_ratio),
     large |-> to_amount(row.q.large),
     large_ratio |-> to_pct(row.q.large_ratio),
     medium |-> to_amount(row.q.medium),
     medium_ratio |-> to_pct(row.q.medium_ratio),
     small |-> to_amount(row.q.small),
     small_ratio |-> to_pct(row.q.small_ratio),
     name |-> row.name]

\* flow_rows: the dicts without a date are skipped, the order is kept
RECURSIVE FlowRows(_)
FlowRows(flows) ==
    IF flows = <<>> THEN <<>>
    ELSE IF Head(flows).date = NoDate THEN FlowRows(Tail(flows))
    ELSE <<FlowRow(Head(flows))>> \o FlowRows(Tail(flows))

FlowKey(r) == <<r.code, r.exchange, r.date>>
ProfileKey(r) == <<r.code, r.exchange, r.field>>

(***************************************************************************)
(* The store: upsert statements and transactions                           *)
(***************************************************************************)
\* INSERT ... ON CONFLICT(key) DO NOTHING: what the statement would do without
\* its DO UPDATE SET list
InsertOrIgnoreFlow(tbl, r) ==
    IF \E o \in tbl : FlowKey(o) = FlowKey(r) THEN tbl ELSE tbl \cup {r}

\* INSERT INTO fund_flow_daily ... ON CONFLICT("代码","交易所","日期") DO UPDATE SET
\* every non-key column = excluded.column  (MySQL: ON DUPLICATE KEY UPDATE)
UpsertFlow(tbl, r) ==
    IF \E o \in tbl : FlowKey(o) = FlowKey(r)
    THEN {IF FlowKey(o) = FlowKey(r)
            THEN [o EXCEPT !.close = r.close, !.pct_chg = r.pct_chg,
                           !.main = r.main, !.main_ratio = r.main_ratio,
                           !.ultra_large = r.ultra_large,
                           !.ultra_large_ratio = r.ultra_large_ratio,
                           !.large = r.large, !.large_ratio = r.large_ratio,
                           !.medium = r.medium, !.medium_ratio = r.medium_ratio,
                           !.small = r.small, !.small_ratio = r.small_ratio,
                           !.name = r.name]
            ELSE o : o \in tbl}
    ELSE tbl \cup {r}

\* INSERT INTO stock_basic_info_xq ... ON CONFLICT DO UPDATE SET "值" = excluded."值"
\* (the "更新时间" column, the wall clock of the call, is left out of the rows)
UpsertProfile(tbl, r) ==
    IF \E o \in tbl : ProfileKey(o) = ProfileKey(r)
    THEN {IF ProfileKey(o) = ProfileKey(r) THEN [o EXCEPT !.value = r.value] ELSE o
            : o \in tbl}
    ELSE tbl \cup {r}

\* executemany: the statement is run for the first n rows, in order
RECURSIVE ExecuteManyFlow(_, _, _)
ExecuteManyFlow(tbl, rows, n) ==
    IF n = 0 \/ rows = <<>> THEN tbl
    ELSE ExecuteManyFlow(UpsertFlow(tbl, Head(rows)), Tail(rows), n - 1)

\* basic_rows of save_to_sqlite: one row per (code, exchange) and field of the
\* profile map; their keys are distinct, so the order of the rows is immaterial
BasicRows(profiles) ==
    UNION {{[code |-> k[1], exchange |-> k[2], field |-> f, value |-> profiles[k][f]]
              : f \in DOMAIN profiles[k]} : k \in DOMAIN profiles}

RECURSIVE ExecuteManyProfile(_, _)
ExecuteManyProfile(tbl, rows) ==
    IF rows = {} THEN tbl
    ELSE LET r == CHOOSE x \in rows : TRUE
         IN  ExecuteManyProfile(UpsertProfile(tbl, r), rows \ {r})

\* a close() that committed the open transaction: what "finally: conn.close()"
\* would do on a connection in autocommit mode
CloseCommitting(committed, txn) == txn

\* finally: conn.close() without a commit: the open transaction is rolled back
\* and the store keeps its committed content
CloseWithoutCommit(committed, txn) == committed

\* the state of the store when save_to_sqlite returns or raises.  failAt names
\* the statement that raises ("none": no statement does); a failing executemany
\* has run its statement for the rows before the failing one: pdone of the
\* profile rows, the first n of the flow rows.
save_to_sqlite(store, flows, profiles, failAt, pdone, n) ==
    IF flows = <<>> /\ DOMAIN profiles = {} THEN [db |-> store, raised |-> FALSE]
    ELSE IF failAt = "connect" THEN [db |-> store, raised |-> TRUE]
    ELSE
        LET basic_rows == BasicRows(profiles)
            flow_rows == FlowRows(flows)
            afterProfiles ==
                [store EXCEPT !.profile =
                    ExecuteManyProfile(@, IF failAt = "profiles" THEN pdone ELSE basic_rows)]
            afterFlows ==
                [afterProfiles EXCEPT !.flow =
                    ExecuteManyFlow(@, flow_rows,
                                    IF failAt = "flows" THEN n ELSE Len(flow_rows))]
        IN  IF failAt = "profiles"
              THEN [db |-> CloseWithoutCommit(store, afterProfiles), raised |-> TRUE]
            ELSE IF failAt \in {"flows", "commit"}
              THEN [db |-> CloseWithoutCommit(store, afterFlows), raised |-> TRUE]
            ELSE [db |-> afterFlows, raised |-> FALSE]

\* minute_history_em.save_rows with the statement of save_daily_flow_rows:
\* the rows are written as they are given
save_daily_flow_rows(store, rows, failAt, n) ==
    IF rows = <<>> THEN [db |-> store, raised |-> FALSE]
    ELSE IF failAt = "connect" THEN [db |-> store, raised |-> TRUE]
    ELSE
        LET afterRows ==
                [store EXCEPT !.flow =
                    ExecuteManyFlow(@, rows, IF failAt = "flows" THEN n ELSE Len(rows))]
        IN  IF failAt \in {"flows", "commit"}
              THEN [db |-> CloseWithoutCommit(store, afterRows), raised |-> TRUE]
            ELSE [db |-> afterRows, raised |-> FALSE]

(***************************************************************************)
(* Writer calls on a store                                                 *)
(***************************************************************************)
MaxBatch == 2

SymKeys == {<<S600519, SH>>, <<S000001, SZ>>}
FlowKeys == {<<k[1], k[2], d>> : k \in SymKeys, d \in Dates}

EmptyDict == [f \in {} |-> ""]
DictShort == [f \in {"org_short_name_cn"} |-> "Moutai"]
DictLong == [f \in {"org_short_name_cn", "org_name_cn"} |->
                IF f = "org_short_name_cn" THEN "" ELSE "Kweichow Moutai"]
ProfileDicts == {EmptyDict, DictShort, DictLong}

\* Dict[Tuple[str, str], Dict[str, str]]: the profile maps handed to the writer
NoProfiles == [k \in {} |-> EmptyDict]
ProfileMaps == {NoProfiles} \cup {[k \in {<<S600519, SH>>} |-> d] : d \in ProfileDicts}

NameOf(q) == IF q = QuoteA THEN Text("Moutai") ELSE NoText

RawFlowChoices ==
    {RawFlow(S600519, SH, d, q, NameOf(q)) : d \in Dates, q \in Quotes}
        \cup {RawFlow(S000001, SZ, d, QuoteB, NoText) : d \in Dates}
        \cup {RawFlow(S600519, SH, NoDate, QuoteA, NoText)}

SeqsUpTo(S, n) == UNION {[1..m -> S] : m \in 0..n}

Absent == [absent |-> TRUE]

\* lastFlow after the rows were written in order: the later row of a key wins
RECURSIVE Remember(_, _)
Remember(last, rows) ==
    IF rows = <<>> THEN last
    ELSE Remember([last EXCEPT ![FlowKey(Head(rows))] = Head(rows)], Tail(rows))

\* the batch writes one key twice with different values, over a different row
\* that the table holds for the key
Overwrites(tbl, rows) ==
    \E i, j \in 1..Len(rows) :
        /\ i < j
        /\ FlowKey(rows[i]) = FlowKey(rows[j])
        /\ rows[i] # rows[j]
        /\ \A m \in (j + 1)..Len(rows) : FlowKey(rows[m]) # FlowKey(rows[j])
        /\ \E o \in tbl : FlowKey(o) = FlowKey(rows[j]) /\ o # rows[j]

NoCall == [kind |-> "none", failed |-> FALSE, raised |-> FALSE,
           flowFailed |-> FALSE, overwrote |-> FALSE, profilesChanged |-> FALSE]

FailPoints == {"none", "connect", "profiles", "flows", "commit"}

\* the rows a failing executemany has gone through before it raises
PartialProfiles(profiles, failAt) ==
    IF failAt = "profiles" THEN (SUBSET BasicRows(profiles)) \ {BasicRows(profiles)}
    ELSE {{}}

PartialRows(rows, failAt) == IF failAt = "flows" THEN 0..(Len(rows) - 1) ELSE {0}

StoreInit ==
    /\ backend \in {"sqlite", "mysql"}
    /\ db = [flow |-> {}, profile |-> {}]
    /\ lastFlow = [k \in FlowKeys |-> Absent]
    /\ lastCall = NoCall

\* one call save_to_sqlite(flows, profiles, db_path)
SaveToSqlite ==
    /\ backend = "sqlite"
    /\ \E flows \in SeqsUpTo(RawFlowChoices, MaxBatch), profiles \in ProfileMaps,
          failAt \in FailPoints :
          \E pdone \in PartialProfiles(profiles, failAt),
             n \in PartialRows(FlowRows(flows), failAt) :
            LET res == save_to_sqlite(db, flows, profiles, failAt, pdone, n)
                empty == flows = <<>> /\ DOMAIN profiles = {}
            IN /\ db' = res.db
               /\ lastFlow' = IF res.raised \/ empty
                                THEN lastFlow ELSE Remember(lastFlow, FlowRows(flows))
               /\ lastCall' = [kind |-> "save_to_sqlite",
                               failed |-> failAt # "none" /\ ~empty,
                               raised |-> res.raised,
                               flowFailed |-> failAt = "flows",
                               overwrote |-> Overwrites(db.flow, FlowRows(flows)),
                               profilesChanged |->
                                   ExecuteManyProfile(db.profile, BasicRows(profiles))
                                       # db.profile]
    /\ UNCHANGED <<backend, notStore>>

\* the tuple main() of minute_history_em builds from one row of the daily frame
DailyRow(row) ==
    [code |-> row.code, exchange |-> row.exchange, date |-> row.date,
     close |-> Real(row.q.close.v), pct_chg |-> Real(row.q.pct_chg.v),
     main |-> Real(row.q.main.v), main_ratio |-> Real(row.q.main_ratio.v),
     ultra_large |-> Real(row.q.ultra_large.v),
     ultra_large_ratio |-> Real(row.q.ultra_large_ratio.v),
     large |-> Real(row.q.large.v), large_ratio |-> Real(row.q.large_ratio.v),
     medium |-> Real(row.q.medium.v), medium_ratio |-> Real(row.q.medium_ratio.v),
     small |-> Real(row.q.small.v), small_ratio |-> Real(row.q.small_ratio.v),
     name |-> NoText]

DailyRowChoices ==
    {DailyRow(RawFlow(S600519, SH, d, q, NoText)) : d \in Dates, q \in Quotes}
        \cup {DailyRow(RawFlow(S000001, SZ, d, QuoteB, NoText)) : d \in Dates}

\* one call save_daily_flow_rows(dsn, rows)
SaveDailyFlowRows ==
    /\ backend = "mysql"
    /\ \E rows \in SeqsUpTo(DailyRowChoices, MaxBatch),
          failAt \in FailPoints \ {"profiles"} :
          \E n \in PartialRows(rows, failAt) :
            LET res == save_daily_flow_rows(db, rows, failAt, n) IN
               /\ db' = res.db
               /\ lastFlow' = IF res.raised THEN lastFlow ELSE Remember(lastFlow, rows)
               /\ lastCall' = [kind |-> "save_daily_flow_rows",
                               failed |-> failAt # "none" /\ rows # <<>>,
                               raised |-> res.raised,
                               flowFailed |-> failAt = "flows",
                               overwrote |-> Overwrites(db.flow, rows),
                               profilesChanged |-> FALSE]
    /\ UNCHANGED <<backend, notStore>>

(***************************************************************************)
(* RateLimiter.wait                                                        *)
(***************************************************************************)
MaxCalls == 2
MaxPeriod == 3
MaxClock == 7

\* the 0.01 s added to every sleep: one tick of the clock
SleepMargin == 1

\* a limiter test that lets one call too many through
AdmitsOneMore(cs, limit) == Len(cs) <= limit

\* len(self.calls) < self.max_calls
Admits(cs, limit) == Len(cs) < limit

\* [t for t in self.calls if now - t < self.period_seconds]
RECURSIVE Recent(_, _, _)
Recent(cs, now, per) ==
    IF cs = <<>> THEN <<>>
    ELSE IF now - Head(cs) < per THEN <<Head(cs)>> \o Recent(Tail(cs), now, per)
    ELSE Recent(Tail(cs), now, per)

\* self.period_seconds - (now - self.calls[0]) + 0.01
SleepFor(cs, now, per) == per - (now - cs[1]) + SleepMargin

RateInit ==
    /\ max_calls \in 1..MaxCalls
    /\ period \in 1..MaxPeriod
    /\ calls = <<>>
    /\ clock = 0
    /\ rlPc = "idle"
    /\ wakeAt = 0
    /\ slept = FALSE
    /\ admitted = [t \in 0..MaxClock |-> 0]

\* the main loop calls limiter.wait()
WaitCall ==
    /\ rlPc = "idle"
    /\ rlPc' = "loop"
    /\ slept' = FALSE
    /\ UNCHANGED <<max_calls, period, calls, clock, wakeAt, admitted, notRate>>

\* one pass of the while loop of wait(): read the clock, drop the old
\* timestamps, then either record the call and return or start a sleep
WaitLoop ==
    /\ rlPc = "loop"
    /\ LET now == clock
           kept == Recent(calls, now, period)
       IN  IF Admits(kept, max_calls)
             THEN /\ calls' = Append(kept, now)
                  /\ admitted' = [admitted EXCEPT ![now] = @ + 1]
                  /\ rlPc' = "idle"
                  /\ UNCHANGED <<wakeAt, slept>>
             ELSE /\ calls' = kept
                  /\ IF SleepFor(kept, now, period) > 0
                       THEN /\ rlPc' = "sleep"
                            /\ wakeAt' = now + SleepFor(kept, now, period)
                            /\ slept' = TRUE
                       ELSE UNCHANGED <<rlPc, wakeAt, slept>>
                  /\ UNCHANGED admitted
    /\ UNCHANGED <<max_calls, period, clock, notRate>>

\* time.sleep(sleep_for) returns once the time asked for has passed
WaitWake ==
    /\ rlPc = "sleep"
    /\ clock >= wakeAt
    /\ rlPc' = "loop"
    /\ UNCHANGED <<max_calls, period, calls, clock, wakeAt, slept, admitted, notRate>>

\* the monotonic clock advances
Tick ==
    /\ clock < MaxClock
    /\ clock' = clock + 1
    /\ UNCHANGED <<max_calls, period, calls, rlPc, wakeAt, slept, admitted, notRate>>

RateIdle ==
    /\ max_calls = 0
    /\ period = 0
    /\ calls = <<>>
    /\ clock = 0
    /\ rlPc = "off"
    /\ wakeAt = 0
    /\ slept = FALSE
    /\ admitted = [t \in 0..MaxClock |-> 0]

(***************************************************************************)
(* Proxy fallback of the market-data client                                *)
(***************************************************************************)
MaxFetches == 2

\* what one call of the upstream function does: it returns a frame with rows,
\* returns an empty frame, or raises
Outcomes == {"data", "empty", "ProxyError", "RequestException", "OtherError"}

\* requests.exceptions.ProxyError is a RequestException: both except clauses
\* do the same
RequestErrors == {"ProxyError", "RequestException"}
Errors == RequestErrors \cup {"OtherError"}

\* the upstream calls of one logical fetch: what each did and whether the proxy
\* variables were set when it was made
UpstreamCall(out, env) == [out |-> out, proxy |-> env]

\* a proxy test that is true whatever the environment holds
AlwaysProxy(env) == TRUE

\* _has_proxy_env()
HasProxyEnv(env) == env

\* _disable_proxies(): the four proxy variables are removed
DisableProxies(env) == FALSE

\* fund_flow._call_with_proxy_retry(fn, description); outs are the outcomes of
\* the successive calls of fn
call_with_proxy_retry(env, outs) ==
    LET first == UpstreamCall(outs[1], env) IN
    IF outs[1] \in RequestErrors /\ HasProxyEnv(env)
      THEN LET off == DisableProxies(env) IN
           [calls |-> <<first, UpstreamCall(outs[2], off)>>, env |-> off,
            result |-> outs[2]]
      ELSE [calls |-> <<first>>, env |-> env, result |-> outs[1]]

\* realtime_fund_flow.fetch_rank(indicator, _fallback): the retry is a recursive
\* call with _fallback = False
RECURSIVE fetch_rank(_, _, _)
fetch_rank(env, outs, fallback) ==
    LET first == UpstreamCall(Head(outs), env) IN
    IF Head(outs) \in RequestErrors /\ fallback /\ HasProxyEnv(env)
      THEN LET again == fetch_rank(DisableProxies(env), Tail(outs), FALSE) IN
           [calls |-> <<first>> \o again.calls, env |-> again.env,
            result |-> again.result]
      ELSE [calls |-> <<first>>, env |-> env, result |-> Head(outs)]

\* serverchan_fund_alert.fetch_fund_flow(): the retry is written out in the
\* except clause
fetch_fund_flow(env, outs) ==
    LET first == UpstreamCall(outs[1], env) IN
    IF outs[1] \in RequestErrors
      THEN IF HasProxyEnv(env)
             THEN LET off == DisableProxies(env) IN
                  [calls |-> <<first, UpstreamCall(outs[2], off)>>, env |-> off,
                   result |-> outs[2]]
             ELSE [calls |-> <<first>>, env |-> env, result |-> outs[1]]
      ELSE [calls |-> <<first>>, env |-> env, result |-> outs[1]]

\* what a fetch function does for its caller: it raises or returns a value
Raise(e) == [raised |-> TRUE, error |-> e]
Return(v) == [raised |-> FALSE, value |-> v]

\* the records fetch_fund_flow_dayk builds from the rows of the upstream frame
\* that lie in the requested range: one per date, in the order of the dates
RECURSIVE Records(_, _)
Records(id, dates) ==
    IF dates = <<>> THEN <<>>
    ELSE <<RawFlow(id.code, id.exchange, Head(dates), QuoteA, NoText)>>
            \o Records(id, Tail(dates))

\* a conversion that reports an upstream error as a frame without rows
RecordsOrNothing(id, dates, result) ==
    IF result = "data" THEN Return(Records(id, dates)) ELSE Return(<<>>)

\* lines 105-139 of fetch_fund_flow_dayk: [] for an empty frame, the records of
\* a frame with rows; an exception of the call passes through the function
FrameToRecords(id, dates, result) ==
    IF result \in Errors THEN Raise(result)
    ELSE IF result = "empty" THEN Return(<<>>)
    ELSE Return(Records(id, dates))

\* fund_flow.fetch_fund_flow_dayk(code, start, end), dates being the dates of
\* the frame from start to end: ValueError for a code parse_stock_code rejects,
\* before any upstream call
fetch_fund_flow_dayk(code, dates, env, outs) ==
    LET id == parse_stock_code(code) IN
    IF ~id.ok THEN [calls |-> <<>>, env |-> env, result |-> "ValueError",
                    ret |-> Raise("ValueError")]
    ELSE LET res == call_with_proxy_retry(env, outs) IN
         [calls |-> res.calls, env |-> res.env, result |-> res.result,
          ret |-> FrameToRecords(id, dates, res.result)]

\* the dict fetch_basic_profile builds from the item/value rows of the frame
ProfileOf(code) == IF code = S600519 THEN DictShort ELSE DictLong

\* fund_flow.fetch_basic_profile(code): "except Exception: return {}" around
\* the call, {} for an empty frame; parse_stock_code is outside the try
fetch_basic_profile(code, env, outs) ==
    LET id == parse_stock_code(code) IN
    IF ~id.ok THEN [calls |-> <<>>, env |-> env, result |-> "ValueError",
                    ret |-> Raise("ValueError")]
    ELSE LET res == call_with_proxy_retry(env, outs) IN
         [calls |-> res.calls, env |-> res.env, result |-> res.result,
          ret |-> IF res.result \in Errors \/ res.result = "empty"
                    THEN Return(EmptyDict) ELSE Return(ProfileOf(code))]

\* the outcomes of the first upstream call of a fetch and of its retry
OutcomeSeqs == [1..2 -> Outcomes]

\* the codes the fetches are made for
FetchCodes == {S600519, S000001}

ProxyInit ==
    /\ proxyEnv \in BOOLEAN
    /\ fetchLog = <<>>
    /\ fetches = 0

\* the log keeps the last two fetches
Keep(log) == IF Len(log) > 2 THEN Tail(log) ELSE log

Logged(who, res) == [who |-> who, calls |-> res.calls, result |-> res.result]

\* a fetch function's log entry carries what the function gave its caller
LoggedRet(who, res) ==
    [who |-> who, calls |-> res.calls, result |-> res.result, ret |-> res.ret]

\* one call fetch_fund_flow_dayk(code)
FetchDayK ==
    /\ fetches < MaxFetches
    /\ \E code \in FetchCodes, d \in Dates, outs \in OutcomeSeqs :
         LET res == fetch_fund_flow_dayk(code, <<d>>, proxyEnv, outs) IN
         /\ proxyEnv' = res.env
         /\ fetchLog' = Keep(Append(fetchLog, LoggedRet("fetch_fund_flow_dayk", res)))
         /\ fetches' = fetches + 1
    /\ UNCHANGED notProxy

\* one call fetch_basic_profile(code)
FetchBasicProfile ==
    /\ fetches < MaxFetches
    /\ \E code \in FetchCodes, outs \in OutcomeSeqs :
         LET res == fetch_basic_profile(code, proxyEnv, outs) IN
         /\ proxyEnv' = res.env
         /\ fetchLog' = Keep(Append(fetchLog, LoggedRet("fetch_basic_profile", res)))
         /\ fetches' = fetches + 1
    /\ UNCHANGED notProxy

\* the polling loop of realtime_fund_flow calls fetch_rank(indicator)
FetchRank ==
    /\ fetches < MaxFetches
    /\ \E outs \in OutcomeSeqs :
         LET res == fetch_rank(proxyEnv, outs, TRUE) IN
         /\ proxyEnv' = res.env
         /\ fetchLog' = Keep(Append(fetchLog, Logged("fetch_rank", res)))
         /\ fetches' = fetches + 1
    /\ UNCHANGED notProxy

\* poll_once of serverchan_fund_alert calls fetch_fund_flow()
FetchFundFlow ==
    /\ fetches < MaxFetches
    /\ \E outs \in OutcomeSeqs :
         LET res == fetch_fund_flow(proxyEnv, outs) IN
         /\ proxyEnv' = res.env
         /\ fetchLog' = Keep(Append(fetchLog, Logged("fetch_fund_flow", res)))
         /\ fetches' = fetches + 1
    /\ UNCHANGED notProxy

\* set_custom_proxy(proxy): the --proxy option of realtime_fund_flow sets the
\* four proxy variables
SetCustomProxy ==
    /\ ~proxyEnv
    /\ fetches < MaxFetches
    /\ proxyEnv' = TRUE
    /\ UNCHANGED <<fetchLog, fetches, notProxy>>

ProxyIdle ==
    /\ proxyEnv = FALSE
    /\ fetchLog = <<>>
    /\ fetches = 0

(***************************************************************************)
(* The bulk orchestrator (daily_bulk_flow.py) and the drivers of the fetch *)
(* loops                                                                   *)
(***************************************************************************)
MaxCodes == 2
Workers == 2
MaxDays == 2
MaxPolls == 3

\* range(3) in run_for_date._worker
Attempts == 3

\* len(flows_batch) > 2000 in run_full_history, scaled to the size of the runs
FlushThreshold == 1

S300750 == <<"3","0","0","7","5","0">>
AllCodes == <<S600519, S000001, S430047, S300750>>
RunDates == <<"2024-01-02", "2024-01-03", "2024-01-04">>

Modes == {"run_for_date", "run_full_history", "scheduler_loop", "realtime_main"}

PreferredKeys == <<"org_short_name_cn", "org_name_cn", "org_short_name_en", "org_name_en">>

RECURSIVE FirstNamed(_, _)
FirstNamed(profile, keys) ==
    IF keys = <<>> THEN NoText
    ELSE IF Head(keys) \in DOMAIN profile /\ profile[Head(keys)] # ""
      THEN Text(profile[Head(keys)])
    ELSE FirstNamed(profile, Tail(keys))

\* fund_flow.extract_stock_name(profile)
extract_stock_name(profile) == FirstNamed(profile, PreferredKeys)

\* [{**item, "name": name} for item in flows]
RECURSIVE Enrich(_, _)
Enrich(flows, name) ==
    IF flows = <<>> THEN <<>>
    ELSE <<[Head(flows) EXCEPT !.name = name]>> \o Enrich(Tail(flows), name)

\* the body of the try of _worker: what it returns, or that it raised
worker_body(code, dates, env, flowOut, profOut) ==
    LET flows == fetch_fund_flow_dayk(code, dates, env, <<flowOut>>).ret IN
    IF flows.raised THEN [raised |-> TRUE]
    ELSE LET profile == fetch_basic_profile(code, env, <<profOut>>).ret
             id == parse_stock_code(code)
         IN  IF profile.raised \/ ~id.ok THEN [raised |-> TRUE]
             ELSE [raised |-> FALSE,
                   flows |-> Enrich(flows.value, extract_stock_name(profile.value)),
                   entry |-> [stock |-> id.code, exchange |-> id.exchange,
                              profile |-> profile.value]]

\* what the upstream does to one logical fetch of a task: rows, no rows, an error
TaskOutcomes == {"data", "empty", "RequestException"}

\* the attempts every task made if all tasks had the retry loop of run_for_date
AttemptsEverywhere(m) == Attempts

\* the attempts of one task: "for attempt in range(3)" in run_for_date, one try
\* statement in run_full_history
AttemptsOf(m) == IF m = "run_full_history" THEN 1 ELSE Attempts

\* the None in the place of the profile entry
NoEntry == [none |-> TRUE]

\* a task that gave up but returned a profile entry like a successful one
GiveUpWithEntry(code, log) ==
    [st |-> "settled", log |-> log, flows |-> <<>>,
     entry |-> [stock |-> parse_stock_code(code).code,
                exchange |-> parse_stock_code(code).exchange, profile |-> EmptyDict]]

\* "return [], None" after the last failed attempt
GiveUp(code, log) == [st |-> "settled", log |-> log, flows |-> <<>>, entry |-> NoEntry]

Queued == [st |-> "queued", log |-> <<>>, flows |-> <<>>, entry |-> NoEntry]

\* the for loop over as_completed(futures) ending as soon as one result was taken
SomeConsumed(t) == \E i \in DOMAIN t : t[i].st = "consumed"

\* the for loop over as_completed(futures) has ended and the with block of the
\* executor was left: every future was yielded
as_completed_exhausted(t) == \A i \in DOMAIN t : t[i].st = "consumed"

\* a driver that caught the writer's exception and went on
SwallowWriterError(m, inLoop, next) == next

\* where the main thread goes when a writer call raises: the polling loop of
\* realtime_fund_flow catches the exception; run_full_history and run_for_date
\* have no handler, inside the with block the executor is shut down first
OnWriterError(m, inLoop, next) ==
    IF m = "realtime_main" THEN next
    ELSE IF inLoop THEN "unwinding" ELSE "raised"

\* where the driver goes when run_for_date / run_full_history returns
AfterRun(m) == IF m = "scheduler_loop" THEN "sleeping" ELSE "done"

\* the dates a task asks for: the_date of run_for_date, which is today in
\* scheduler_loop; every date of the frame in run_full_history
TheDates(m, r) ==
    IF m = "scheduler_loop" THEN <<RunDates[r]>>
    ELSE IF m = "run_full_history" THEN SubSeq(RunDates, 1, 2)
    ELSE <<RunDates[1]>>

\* profile_map[(stock, exchange)] = profile
Put(f, k, v) == [x \in DOMAIN f \cup {k} |-> IF x = k THEN v ELSE f[x]]

\* realtime_fund_flow.save_rank_to_db(df): nothing for an empty frame; the
\* statement names 17 columns and 18 placeholders, so executemany raises
save_rank_to_db(store, df) ==
    IF df = "empty" THEN [db |-> store, raised |-> FALSE]
    ELSE [db |-> CloseWithoutCommit(store, store), raised |-> TRUE]

RunIdle ==
    /\ mode = "none"
    /\ runPc = "off"
    /\ codes = <<>>
    /\ pool = 1
    /\ task = <<>>
    /\ flows_collected = <<>>
    /\ profile_map = NoProfiles
    /\ warnings = {}
    /\ handed = <<>>
    /\ rounds = 0
    /\ writerErrors = 0

\* the codes of a run: a list of up to MaxCodes codes for run_for_date and
\* run_full_history, whose tasks run side by side; scheduler_loop repeats
\* run_for_date day after day and is given a list of one code
CodesOf(m) ==
    IF m = "realtime_main" THEN {<<>>}
    ELSE IF m = "scheduler_loop" THEN {<<AllCodes[1]>>}
    ELSE {SubSeq(AllCodes, 1, n) : n \in 0..MaxCodes}

\* max(1, workers): --workers sets it for run_for_date and run_full_history;
\* scheduler_loop runs with the default
PoolsOf(m) ==
    IF m = "realtime_main" THEN {1}
    ELSE IF m = "scheduler_loop" THEN {Workers}
    ELSE 1..Workers

RunInit ==
    /\ mode \in Modes
    /\ runPc = (IF mode = "scheduler_loop" THEN "sleeping"
                ELSE IF mode = "realtime_main" THEN "polling" ELSE "call")
    /\ codes \in CodesOf(mode)
    /\ pool \in PoolsOf(mode)
    /\ task = <<>>
    /\ flows_collected = <<>>
    /\ profile_map = NoProfiles
    /\ warnings = {}
    /\ handed = <<>>
    /\ rounds = 0
    /\ writerErrors = 0
    /\ backend = "sqlite"
    /\ db = [flow |-> {}, profile |-> {}]
    /\ lastFlow = [k \in FlowKeys |-> Absent]
    /\ lastCall = NoCall

\* executor.submit(_worker, code) for every code, with empty collections
Submit ==
    /\ task' = [i \in 1..Len(codes) |-> Queued]
    /\ flows_collected' = <<>>
    /\ profile_map' = NoProfiles
    /\ warnings' = {}
    /\ handed' = <<>>
    /\ runPc' = "gather"

\* main() calls run_for_date or run_full_history
CallRun ==
    /\ mode \in {"run_for_date", "run_full_history"}
    /\ runPc = "call"
    /\ Submit
    /\ UNCHANGED <<mode, codes, pool, rounds, writerErrors, storeVars, notRun>>

\* scheduler_loop wakes up at 16:00 and calls run_for_date on a trading day
WakeUp ==
    /\ mode = "scheduler_loop"
    /\ runPc = "sleeping"
    /\ rounds < MaxDays
    /\ rounds' = rounds + 1
    /\ \E trading \in BOOLEAN :
         IF trading THEN Submit
         ELSE UNCHANGED <<task, flows_collected, profile_map, warnings, handed, runPc>>
    /\ UNCHANGED <<mode, codes, pool, writerErrors, storeVars, notRun>>

\* KeyboardInterrupt during the sleep of scheduler_loop: break
Interrupt ==
    /\ mode = "scheduler_loop"
    /\ runPc = "sleeping"
    /\ runPc' = "done"
    /\ UNCHANGED <<mode, codes, pool, task, flows_collected, profile_map, warnings,
                   handed, rounds, writerErrors, storeVars, notRun>>

Running(t) == {i \in DOMAIN t : t[i].st = "running"}

\* a thread of the pool takes the next submitted task
TaskStart ==
    /\ runPc \in {"gather", "unwinding"}
    /\ Cardinality(Running(task)) < pool
    /\ \E i \in DOMAIN task :
         /\ task[i].st = "queued"
         /\ \A j \in 1..(i - 1) : task[j].st # "queued"
         /\ task' = [task EXCEPT ![i].st = "running"]
    /\ UNCHANGED <<mode, runPc, codes, pool, flows_collected, profile_map, warnings,
                   handed, rounds, writerErrors, storeVars, notRun>>

\* one attempt of a running task: the body of the try and the except clause
TaskAttempt ==
    /\ runPc \in {"gather", "unwinding"}
    /\ \E i \in DOMAIN task, flowOut \in TaskOutcomes, profOut \in TaskOutcomes :
         /\ task[i].st = "running"
         /\ LET r == worker_body(codes[i], TheDates(mode, rounds), proxyEnv, flowOut, profOut)
                log == Append(task[i].log, IF r.raised THEN "error" ELSE "ok")
            IN  IF ~r.raised
                  THEN /\ task' = [task EXCEPT ![i] =
                                      [st |-> "settled", log |-> log, flows |-> r.flows,
                                       entry |-> r.entry]]
                       /\ warnings' = IF r.flows = <<>> /\ mode # "run_full_history"
                                        THEN warnings \cup {<<codes[i], "no flow data">>}
                                        ELSE warnings
                ELSE IF Len(log) < AttemptsOf(mode)
                  THEN /\ task' = [task EXCEPT ![i].log = log]
                       /\ UNCHANGED warnings
                ELSE /\ task' = [task EXCEPT ![i] = GiveUp(codes[i], log)]
                     /\ warnings' = warnings \cup {<<codes[i], "failed">>}
    /\ UNCHANGED <<mode, runPc, codes, pool, flows_collected, profile_map, handed,
                   rounds, writerErrors, storeVars, notRun>>

\* one call of the writer by a driver, and where the driver goes from it
WriterCall(flows, profiles, failAt, pdone, n, inLoop, next) ==
    LET res == save_to_sqlite(db, flows, profiles, failAt, pdone, n) IN
    /\ db' = res.db
    /\ handed' = Append(handed, [flows |-> flows, profiles |-> profiles,
                                 raised |-> res.raised])
    /\ writerErrors' = writerErrors + (IF res.raised THEN 1 ELSE 0)
    /\ runPc' = IF res.raised THEN OnWriterError(mode, inLoop, next) ELSE next

\* a loop that keeps every record until the end of the run
NeverFlush(fc) == FALSE

\* line 314: flows_batch and len(flows_batch) > 2000
NeedsFlush(fc) == fc # <<>> /\ Len(fc) > FlushThreshold

\* one pass of the loop over as_completed(futures): the result of a finished
\* task is merged; run_full_history flushes a batch of more than the threshold
Consume ==
    /\ runPc = "gather"
    /\ \E i \in DOMAIN task :
         /\ task[i].st = "settled"
         /\ task' = [task EXCEPT ![i].st = "consumed"]
         /\ LET t == task[i]
                pm == IF t.entry # NoEntry
                        THEN Put(profile_map, <<t.entry.stock, t.entry.exchange>>,
                                 t.entry.profile)
                        ELSE profile_map
                fc == flows_collected \o t.flows
            IN  IF mode = "run_full_history" /\ NeedsFlush(fc)
                  THEN \E failAt \in FailPoints :
                         \E pdone \in PartialProfiles(pm, failAt),
                            n \in PartialRows(FlowRows(fc), failAt) :
                           /\ WriterCall(fc, pm, failAt, pdone, n, TRUE, "gather")
                           /\ flows_collected' = IF failAt = "none" THEN <<>> ELSE fc
                           /\ profile_map' = IF failAt = "none" THEN NoProfiles ELSE pm
                ELSE /\ flows_collected' = fc
                     /\ profile_map' = pm
                     /\ UNCHANGED <<db, handed, writerErrors, runPc>>
    /\ UNCHANGED <<mode, codes, pool, warnings, rounds, backend, lastFlow, lastCall,
                   notRun>>

\* a last flush that looks at the records only
RecordsOnly(fc, pm) == fc # <<>>

\* lines 229 and 319: flows_collected or profile_map
FinalFlush(fc, pm) == fc # <<>> \/ DOMAIN pm # {}

\* after the with block: the collected records and profiles go to the writer,
\* and the run returns
Finish ==
    /\ runPc = "gather"
    /\ as_completed_exhausted(task)
    /\ IF FinalFlush(flows_collected, profile_map)
         THEN \E failAt \in FailPoints :
                \E pdone \in PartialProfiles(profile_map, failAt),
                   n \in PartialRows(FlowRows(flows_collected), failAt) :
                  WriterCall(flows_collected, profile_map, failAt, pdone, n, FALSE,
                             AfterRun(mode))
         ELSE /\ runPc' = AfterRun(mode)
              /\ UNCHANGED <<db, handed, writerErrors>>
    /\ UNCHANGED <<mode, codes, pool, task, flows_collected, profile_map, warnings,
                   rounds, backend, lastFlow, lastCall, notRun>>

\* the exception of a flush leaves the with block once the pool has run every
\* submitted task: shutdown(wait=True)
Unwound ==
    /\ runPc = "unwinding"
    /\ \A i \in DOMAIN task : task[i].st \in {"settled", "consumed"}
    /\ runPc' = "raised"
    /\ UNCHANGED <<mode, codes, pool, task, flows_collected, profile_map, warnings,
                   handed, rounds, writerErrors, storeVars, notRun>>

\* one pass of the while loop of realtime_fund_flow.main with --db: an
\* exception of the fetch gives an empty frame, an exception of save_rank_to_db
\* is printed
Poll ==
    /\ mode = "realtime_main"
    /\ runPc = "polling"
    /\ rounds < MaxPolls
    /\ \E out \in Outcomes :
         LET res == fetch_rank(proxyEnv, <<out>>, TRUE)
             df == IF res.result = "data" THEN "rows" ELSE "empty"
             w == save_rank_to_db(db, df)
         IN  /\ db' = w.db
             /\ handed' = Append(handed, [df |-> df, raised |-> w.raised])
             /\ writerErrors' = writerErrors + (IF w.raised THEN 1 ELSE 0)
             /\ runPc' = IF w.raised THEN OnWriterError(mode, TRUE, "polling")
                         ELSE "polling"
    /\ rounds' = rounds + 1
    /\ UNCHANGED <<mode, codes, pool, task, flows_collected, profile_map, warnings,
                   backend, lastFlow, lastCall, notRun>>

(***************************************************************************)
(* daily_bulk_flow.run_full_range                                          *)
(***************************************************************************)
\* dt.date.max, scaled: dates are day numbers 0..DateMax, day 0 a Monday
DateMax == 9

\* a date that is not there: an argument strptime rejects, a local not yet
\* assigned
Unset == 0 - 1

\* date.weekday(): Monday is 0
weekday(d) == d % 7

\* a day loop that runs a batch on every calendar day
EveryDay(d) == TRUE

is_trading_day(d) == weekday(d) < 5

RangeInit ==
    /\ rgPc = "start"
    /\ end_date \in {Unset} \cup 0..DateMax
    /\ start_date = Unset
    /\ current = Unset
    /\ batches = <<>>

RangeIdle ==
    /\ rgPc = "idle"
    /\ end_date = Unset
    /\ start_date = Unset
    /\ current = Unset
    /\ batches = <<>>

\* lines 245-262: parse the end date, load the codes, find the earliest date
\* of the first code
RangeStart ==
    /\ rgPc = "start"
    /\ \/ /\ end_date = Unset                 \* strptime raises: SystemExit
          /\ rgPc' = "exit"
          /\ UNCHANGED <<start_date, current>>
       \/ /\ end_date # Unset
          /\ \/ /\ rgPc' = "aborted"           \* no codes, or no rows for the sample
                /\ UNCHANGED <<start_date, current>>
             \/ /\ rgPc' = "raised"            \* fetch_fund_flow_dayk raises
                /\ UNCHANGED <<start_date, current>>
             \/ \E d \in 0..DateMax :
                    /\ start_date' = d
                    /\ current' = d
                    /\ rgPc' = "loop"
    /\ UNCHANGED <<end_date, batches, notRange>>

\* current += dt.timedelta(days=1): OverflowError past date.max
NextDay ==
    IF current = DateMax
    THEN rgPc' = "raised" /\ UNCHANGED current
    ELSE current' = current + 1 /\ UNCHANGED rgPc

\* lines 265-275: one pass of the while loop; run_for_date returns or raises
RangeDay ==
    /\ rgPc = "loop"
    /\ current <= end_date
    /\ IF is_trading_day(current)
       THEN /\ batches' = Append(batches, current)
            /\ \/ NextDay
               \/ rgPc' = "raised" /\ UNCHANGED current
       ELSE /\ NextDay
            /\ UNCHANGED batches
    /\ UNCHANGED <<end_date, start_date, notRange>>

\* the while condition is false
RangeReturn ==
    /\ rgPc = "loop"
    /\ current > end_date
    /\ rgPc' = "done"
    /\ UNCHANGED <<end_date, start_date, current, batches, notRange>>

NextRange == RangeStart \/ RangeDay \/ RangeReturn

(***************************************************************************)
(* daily_bulk_flow.scheduler_loop and the wall clock                       *)
(***************************************************************************)
\* a day has DayTicks ticks of four hours; 16:00 is tick TargetTick of its day
DayTicks == 6
TargetTick == 4

\* the last tick of the clock, and the longest batch in ticks
MaxNow == 47
MaxRunTicks == 7

\* dt.date.today() at time t
DateOf(t) == t \div DayTicks

\* a target that is never moved to the next day
TodaysTarget(t) == DateOf(t) * DayTicks + TargetTick

\* lines 331-334: today's 16:00, or tomorrow's when 16:00 has passed
TargetOf(t) ==
    LET today16 == DateOf(t) * DayTicks + TargetTick IN
    IF t > today16 THEN today16 + DayTicks ELSE today16

SchedInit ==
    /\ wall \in 0..MaxNow
    /\ target = Unset
    /\ schPc = "top"
    /\ started = <<>>

SchedIdle ==
    /\ wall = 0
    /\ target = Unset
    /\ schPc = "idle"
    /\ started = <<>>

\* lines 330-336: read the clock, compute the target and the time to sleep
SchedTop ==
    /\ schPc = "top"
    /\ target' = TargetOf(wall)
    /\ schPc' = IF TargetOf(wall) - wall > 0 THEN "sleep" ELSE "woken"
    /\ UNCHANGED <<wall, started, notSched>>

\* lines 339-340: KeyboardInterrupt while time.sleep runs
SchedInterrupt ==
    /\ schPc = "sleep"
    /\ schPc' = "stopped"
    /\ UNCHANGED <<wall, target, started, notSched>>

\* line 338: time.sleep returns, at the target or later on the target's day
SchedWake ==
    /\ schPc = "sleep"
    /\ \E t \in target..MaxNow :
            /\ DateOf(t) = DateOf(target)
            /\ wall' = t
    /\ schPc' = "woken"
    /\ UNCHANGED <<target, started, notSched>>

\* lines 342-344: today's date, the weekday test, the call of run_for_date
SchedToday ==
    /\ schPc = "woken"
    /\ IF is_trading_day(DateOf(wall))
       THEN /\ started' = Append(started, [date |-> DateOf(wall), at |-> wall])
            /\ schPc' = "batch"
       ELSE /\ schPc' = "top"
            /\ UNCHANGED started
    /\ UNCHANGED <<wall, target, notSched>>

\* run_for_date runs for some time, then returns or raises
SchedBatch ==
    /\ schPc = "batch"
    /\ \E dur \in 1..MaxRunTicks :
            /\ wall + dur <= MaxNow
            /\ wall' = wall + dur
    /\ schPc' \in {"top", "raised"}
    /\ UNCHANGED <<target, started, notSched>>

NextSched == SchedTop \/ SchedInterrupt \/ SchedWake \/ SchedToday \/ SchedBatch

(***************************************************************************)
(* The MySQL writers: tx_hist_daily.save_rows, minute_history_em           *)
(* save_price_rows / save_flow_rows, baostock_hist_daily.save_rows         *)
(***************************************************************************)
\* rows of a batch
MaxUpsertRows == 2

\* Columns are written with ASCII names: code6 is 股票代码, name 股票名称,
\* date 日期, open 开盘, close 收盘, high 最高, low 最低, volume 成交量,
\* amount 成交额, amplitude 振幅, pct_chg 涨跌幅, change 涨跌额, turnover 换手率,
\* period 周期, adjust 复权, tradestatus 交易状态, pe_ttm 市盈率_TTM, pb 市净率,
\* ps_ttm 市销率_TTM, pcf_ttm 市现率_TTM, is_st 是否ST, written_at 写入时间.
Tables == {"stock_daily_em", "stock_minute_15m", "stock_daily_baostock"}

Writers == {"tx_save_rows", "save_price_rows", "save_flow_rows", "bs_save_rows"}

TableOf(w) ==
    CASE w = "tx_save_rows" -> "stock_daily_em"
      [] w = "bs_save_rows" -> "stock_daily_baostock"
      [] OTHER -> "stock_minute_15m"

PriceCols == {"open", "close", "high", "low", "vol", "amount"}
FlowCols == {"main", "ultra_large", "large", "medium", "small"}

\* CREATE TABLE: the columns of a table
Cols(t) ==
    CASE t = "stock_daily_em" ->
            {"ts_code", "code6", "name", "date", "open", "close", "high", "low",
             "volume", "amount", "amplitude", "pct_chg", "change", "turnover",
             "period", "adjust"}
      [] t = "stock_minute_15m" -> {"ts_code", "trade_time"} \cup PriceCols \cup FlowCols
      [] OTHER ->
            {"ts_code", "code6", "name", "date", "open", "high", "low", "close",
             "volume", "amount", "adjust", "turnover", "tradestatus", "pct_chg",
             "pe_ttm", "pb", "ps_ttm", "pcf_ttm", "is_st", "written_at"}

\* PRIMARY KEY
KeyCols(t) ==
    CASE t = "stock_daily_em" -> {"ts_code", "date", "period", "adjust"}
      [] t = "stock_minute_15m" -> {"ts_code", "trade_time"}
      [] OTHER -> {"ts_code", "date"}

NonKeyCols(t) == Cols(t) \ KeyCols(t)

\* INSERT INTO t (...): the columns a writer's statement names
InsertCols(w) ==
    IF w = "save_flow_rows" THEN {"ts_code", "trade_time"} \cup FlowCols
    ELSE Cols(TableOf(w))

\* an update list that names every non-key column of the table
EveryNonKeyCol(w) == NonKeyCols(TableOf(w))

\* ON DUPLICATE KEY UPDATE c = VALUES(c), ...: the columns of the update list
UpdateCols(w) ==
    CASE w = "tx_save_rows" ->
            {"name", "open", "close", "high", "low", "volume", "amount",
             "amplitude", "pct_chg", "change", "turnover"}
      [] w = "save_price_rows" -> PriceCols
      [] w = "save_flow_rows" -> FlowCols
      [] OTHER -> NonKeyCols("stock_daily_baostock")

\* the values of a fetch: every column of a row of fetch v carries v
Versions == {"v1", "v2"}
SqlNull == "NULL"
TheKey == "k"

\* the tuple main() builds for a writer: minute_history_em passes None for the
\* five flow columns of a price row
RowOf(w, v) ==
    [c \in InsertCols(w) |->
        IF c \in KeyCols(TableOf(w)) THEN TheKey
        ELSE IF w = "save_price_rows" /\ c \in FlowCols THEN SqlNull
        ELSE v]

SameKey(t, r, row) == \A c \in KeyCols(t) : r[c] = row[c]

\* VALUES(c): what the statement would insert into column c, NULL for a
\* column it does not name
Values(row, c) == IF c \in DOMAIN row THEN row[c] ELSE SqlNull

\* one row of executemany: INSERT ... ON DUPLICATE KEY UPDATE; a column the
\* statement does not name gets its default, NULL
UpsertRow(rows, w, row) ==
    LET t == TableOf(w) IN
    IF \E r \in rows : SameKey(t, r, row)
    THEN { IF SameKey(t, r, row)
             THEN [c \in Cols(t) |-> IF c \in UpdateCols(w) THEN Values(row, c) ELSE r[c]]
             ELSE r : r \in rows }
    ELSE rows \cup { [c \in Cols(t) |-> Values(row, c)] }

RECURSIVE ExecuteManyUpsert(_, _, _)
ExecuteManyUpsert(rows, w, batch) ==
    IF batch = <<>> THEN rows
    ELSE ExecuteManyUpsert(UpsertRow(rows, w, Head(batch)), w, Tail(batch))

\* the stored row with the key of the model, or the mark that there is none
NoRow == [ts_code |-> "absent"]
Stored(rows) == IF rows = {} THEN NoRow ELSE CHOOSE r \in rows : TRUE

NoUpsert == [writer |-> "none", last |-> NoRow, before |-> NoRow]

UpsertInit ==
    /\ mysql = [t \in Tables |-> {}]
    /\ lastUpsert = NoUpsert

UpsertIdle ==
    /\ mysql = [t \in {} |-> {}]
    /\ lastUpsert = NoUpsert

\* save_rows(dsn, rows): nothing for an empty list; otherwise connect, create
\* the table, executemany, commit; an error closes the connection without a
\* commit
SaveRows(w) ==
    \E n \in 0..MaxUpsertRows :
      \E vs \in [1..n -> Versions], ok \in BOOLEAN :
        LET batch == [i \in 1..n |-> RowOf(w, vs[i])]
            t == TableOf(w)
        IN  IF n = 0 \/ ~ok THEN UNCHANGED <<mysql, lastUpsert>>
            ELSE /\ mysql' = [mysql EXCEPT ![t] = ExecuteManyUpsert(@, w, batch)]
                 /\ lastUpsert' = [writer |-> w, last |-> batch[n],
                                   before |-> Stored(mysql[t])]

TxSaveRows == SaveRows("tx_save_rows") /\ UNCHANGED notUpsert
SavePriceRows == SaveRows("save_price_rows") /\ UNCHANGED notUpsert
SaveFlowRows == SaveRows("save_flow_rows") /\ UNCHANGED notUpsert
BsSaveRows == SaveRows("bs_save_rows") /\ UNCHANGED notUpsert

NextUpsert == TxSaveRows \/ SavePriceRows \/ SaveFlowRows \/ BsSaveRows

(***************************************************************************)
(* data/all_codes.json: daily_bulk_flow.fetch_all_stock_codes,             *)
(* tx_hist_daily.load_codes_from_cache and main                            *)
(***************************************************************************)
\* items of the JSON list in the file
MaxCacheItems == 2

\* an item of a JSON list: a string, or a value that is not a string
StrItem(chars) == [str |-> TRUE, s |-> chars]
IntItem == [str |-> FALSE, s |-> <<>>]
CacheItems == {StrItem(S600519), StrItem(S000001), StrItem(<<"a","b","c">>), IntItem}

\* the file: absent, present but not JSON, a JSON value that is not a list,
\* or a JSON list
Missing == [kind |-> "missing", items |-> <<>>]
Unparsable == [kind |-> "unparsable", items |-> <<>>]
NotAList == [kind |-> "object", items |-> <<>>]
JsonList(items) == [kind |-> "list", items |-> items]

CacheFiles ==
    {Missing, Unparsable, NotAList}
        \cup {JsonList(is) : is \in UNION {[1..n -> CacheItems] : n \in 0..MaxCacheItems}}

\* what the Eastmoney list returns: an error on every attempt, or pages whose
\* six-digit codes come back sorted and without duplicates
LiveLists == {<<>>, <<StrItem(S000001)>>, <<StrItem(S000001), StrItem(S600519)>>}

Range(f) == {f[i] : i \in DOMAIN f}

\* tx_hist_daily.load_codes_from_cache: [] for a file that is missing, not
\* JSON or not a list; otherwise the normalized strings of the list, as a set
load_codes_from_cache(file) ==
    [codes |-> IF file.kind # "list" THEN {}
               ELSE {StrItem(Serialize(normalize_ts_code(it.s))) :
                        it \in {x \in Range(file.items) :
                                  x.str /\ normalize_ts_code(x.s).ok}},
     refetched |-> FALSE]

NoLoad == [consumer |-> "none", found |-> Missing, result |-> "none", codes |-> {},
           refetched |-> FALSE]

CacheInit ==
    /\ cacheFile \in CacheFiles
    /\ lastLoad = NoLoad

CacheIdle ==
    /\ cacheFile = Missing
    /\ lastLoad = NoLoad

\* daily_bulk_flow.fetch_all_stock_codes(force_refresh): a non-empty JSON list
\* in the file is returned as it is; otherwise the list is fetched page by
\* page, RequestException after five attempts passing to the caller, and the
\* result is written to the file, an error of the write being ignored
FetchAllStockCodes ==
    /\ \E force_refresh \in BOOLEAN :
         IF ~force_refresh /\ cacheFile.kind = "list" /\ cacheFile.items # <<>>
         THEN /\ lastLoad' = [consumer |-> "daily_bulk_flow", found |-> cacheFile,
                              result |-> "returned", codes |-> Range(cacheFile.items),
                              refetched |-> FALSE]
              /\ UNCHANGED cacheFile
         ELSE \/ /\ lastLoad' = [consumer |-> "daily_bulk_flow", found |-> cacheFile,
                                 result |-> "raised", codes |-> {}, refetched |-> TRUE]
                 /\ UNCHANGED cacheFile
              \/ \E live \in LiveLists, written \in BOOLEAN :
                    /\ lastLoad' = [consumer |-> "daily_bulk_flow", found |-> cacheFile,
                                    result |-> "returned", codes |-> Range(live),
                                    refetched |-> TRUE]
                    /\ cacheFile' = IF written THEN JsonList(live) ELSE cacheFile
    /\ UNCHANGED notCache

\* tx_hist_daily.main, lines 205-216, without --codes: the codes of the file,
\* and SystemExit when there are none
TxMain ==
    /\ LET r == load_codes_from_cache(cacheFile) IN
       lastLoad' = [consumer |-> "tx_hist_daily", found |-> cacheFile,
                    result |-> IF r.codes = {} THEN "exit" ELSE "returned",
                    codes |-> r.codes, refetched |-> r.refetched]
    /\ UNCHANGED <<cacheFile, notCache>>

NextCache == FetchAllStockCodes \/ TxMain

(***************************************************************************)
(* scripts/fetch_today_fund_flow.py: the import of daily_bulk_flow and main *)
(***************************************************************************)
\* the days a target date is drawn from: a week starting on a Monday
LastDay == 6

\* PROXY_API_URL, PROXY_USERNAME and PROXY_PASSWORD, MYSQL_DSN or --dsn, and
\* the target date (--date or today), Unset for a --date that does not parse
Environments ==
    [PROXY_API_URL : BOOLEAN, proxy_auth : BOOLEAN, dsn : BOOLEAN,
     date : {Unset} \cup 0..LastDay]

\* what the proxy API answers: RequestException, an empty body, an address
ProxyReplies == {"RequestException", "empty", "ip"}

\* daily_bulk_flow._refresh_proxy(): the proxies of the session after the call
refresh_proxy(e, reply, proxies) ==
    IF ~e.PROXY_API_URL THEN proxies
    ELSE IF reply # "ip" THEN proxies
    ELSE IF e.proxy_auth THEN "with_auth"
    ELSE "plain"

TodayInit ==
    /\ osEnv \in Environments
    /\ ftPc = "import"
    /\ sessionProxies = "none"
    /\ events = <<>>
    /\ exitStatus = Unset

TodayIdle ==
    /\ osEnv = [PROXY_API_URL |-> FALSE, proxy_auth |-> FALSE, dsn |-> FALSE, date |-> Unset]
    /\ ftPc = "idle"
    /\ sessionProxies = "none"
    /\ events = <<>>
    /\ exitStatus = Unset

\* lines 11-18 of fetch_today_fund_flow: importing scripts.daily_bulk_flow runs
\* its module body, which ends with a call of _refresh_proxy() (line 128)
ImportDailyBulkFlow ==
    /\ ftPc = "import"
    /\ \E reply \in ProxyReplies :
         /\ sessionProxies' = refresh_proxy(osEnv, reply, sessionProxies)
         /\ events' = IF osEnv.PROXY_API_URL
                         THEN Append(events, "GET PROXY_API_URL")
                         ELSE events
    /\ ftPc' = "main"
    /\ UNCHANGED <<osEnv, exitStatus, notToday>>

\* fetch_today_fund_flow.main: SystemExit for a date that does not parse, a
\* return on a day that is no trading day, SystemExit without a DSN, and
\* otherwise run_for_date, which fetches, writes, and returns or raises
FetchTodayMain ==
    /\ ftPc = "main"
    /\ IF osEnv.date = Unset
         THEN exitStatus' = 1 /\ UNCHANGED events
       ELSE IF ~is_trading_day(osEnv.date)
         THEN exitStatus' = 0 /\ UNCHANGED events
       ELSE IF ~osEnv.dsn
         THEN exitStatus' = 1 /\ UNCHANGED events
       ELSE \/ /\ events' = events \o <<"GET upstream", "store write">>
               /\ exitStatus' \in {0, 1}
            \/ /\ events' = Append(events, "GET upstream")
               /\ exitStatus' = 1
    /\ ftPc' = "done"
    /\ UNCHANGED <<osEnv, sessionProxies, notToday>>

NextToday == ImportDailyBulkFlow \/ FetchTodayMain

(***************************************************************************)
(* web/app.py: _get_trade_or_404, edit_trade, delete_trade,                *)
(* build_fund_snapshot, ensure_recent_nav_snapshot, fund_overview_view     *)
(***************************************************************************)
\* rows of trade_logs
MaxTrades == 2

\* the user build_fund_snapshot takes the positions from, and another user
BaseUser == "cwjcw"
Users == {BaseUser, "u1"}
TradeIds == 1..MaxTrades
Symbols == {"s1", "s2"}

\* WHERE `id` = %s AND `user_id` = %s
OwnedBy(id, u) == trade_logs[id].live /\ trade_logs[id].user_id = u

\* SELECT COALESCE(SUM(`shares`), 0) FROM `fund_holdings`
RECURSIVE SumShares(_)
SumShares(us) ==
    IF us = {} THEN 0
    ELSE LET u == CHOOSE x \in us : TRUE IN fund_holdings[u] + SumShares(us \ {u})

NoNav == [exists |-> FALSE, positions |-> {}, total_shares |-> 0, owners |-> {}]

\* build_fund_snapshot: the positions of the base user's trades and the shares
\* of all holders; owners are the users whose rows went into it
build_fund_snapshot ==
    [exists |-> TRUE,
     positions |-> {trade_logs[i].symbol :
                      i \in {j \in TradeIds : trade_logs[j].live
                                               /\ trade_logs[j].user_id = BaseUser}},
     total_shares |-> SumShares(Users),
     owners |-> {BaseUser} \cup {u \in Users : fund_holdings[u] > 0}]

\* ensure_recent_nav_snapshot: the latest record when it is recent; otherwise
\* a new snapshot, recorded when it has shares; otherwise the latest record
ensure_recent_nav_snapshot(recent) ==
    IF navRecord.exists /\ recent THEN navRecord
    ELSE IF build_fund_snapshot.total_shares > 0 THEN build_fund_snapshot
    ELSE navRecord

NoReq == [user |-> "none", handler |-> "none", status |-> 0, sources |-> {}]

WebInit ==
    /\ trade_logs \in [TradeIds -> [user_id : Users, symbol : {"s1"}, live : {TRUE}]]
    /\ fund_holdings \in [Users -> 0..1]
    /\ navRecord = NoNav
    /\ lastReq = NoReq

WebIdle ==
    /\ trade_logs = <<>>
    /\ fund_holdings = <<>>
    /\ navRecord = NoNav
    /\ lastReq = NoReq

\* POST /trades/<id>/edit by a logged-in user with a valid form: 404 unless
\* the user has a trade with that id, otherwise the UPDATE and a redirect
EditTrade ==
    /\ \E u \in Users, id \in TradeIds, sym \in Symbols :
         IF ~OwnedBy(id, u)
         THEN /\ lastReq' = [user |-> u, handler |-> "edit_trade", status |-> 404,
                             sources |-> {}]
              /\ UNCHANGED trade_logs
         ELSE /\ trade_logs' = [i \in TradeIds |->
                                  IF i = id /\ OwnedBy(i, u)
                                  THEN [trade_logs[i] EXCEPT !.symbol = sym]
                                  ELSE trade_logs[i]]
              /\ lastReq' = [user |-> u, handler |-> "edit_trade", status |-> 302,
                             sources |-> {trade_logs[id].user_id}]
    /\ UNCHANGED <<fund_holdings, navRecord, notWeb>>

\* POST /trades/<id>/delete: the DELETE and a redirect, whatever the rowcount
DeleteTrade ==
    /\ \E u \in Users, id \in TradeIds :
         /\ trade_logs' = [i \in TradeIds |->
                             IF i = id /\ OwnedBy(i, u)
                             THEN [trade_logs[i] EXCEPT !.live = FALSE]
                             ELSE trade_logs[i]]
         /\ lastReq' = [user |-> u, handler |-> "delete_trade", status |-> 302,
                        sources |-> IF OwnedBy(id, u) THEN {trade_logs[id].user_id}
                                    ELSE {}]
    /\ UNCHANGED <<fund_holdings, navRecord, notWeb>>

\* GET /fund: the page shows the user's own holding next to the net asset
\* value, the total shares and the positions of the latest snapshot
FundOverviewView ==
    /\ \E u \in Users, recent \in BOOLEAN :
         LET nav == ensure_recent_nav_snapshot(recent) IN
         /\ navRecord' = nav
         /\ lastReq' = [user |-> u, handler |-> "fund_overview_view", status |-> 200,
                        sources |-> {u} \cup nav.owners]
    /\ UNCHANGED <<trade_logs, fund_holdings, notWeb>>

NextWeb == EditTrade \/ DeleteTrade \/ FundOverviewView

(***************************************************************************)
(* One numeric cell of an upstream row through the mappers                 *)
(* (fund_flow.save_to_sqlite, baostock_hist_daily.main)                    *)
(***************************************************************************)

\* what a numeric cell of an upstream row can hold: nothing, a number, the
\* missing value of a DataFrame, a list, or a string
CellTexts ==
    { <<>>, <<" ">>, <<"-">>, <<"-", "-">>, <<"a", "b", "c">>,
      <<"n", "u", "l", "l">>, <<"N", "U", "L", "L">>, <<" ", "N", "u", "l", "l", " ">>,
      <<"1", "2", ".", "3", "4", "5">>, <<" ", "7", " ">>, <<"0">>, <<"-", "1", ".", "5">>,
      <<"n", "a", "n">>, <<"N", "a", "N">>, <<"1", ".", "2", ".", "3">>, <<"+">>, <<".">>,
      <<"5", ".">>, <<".", "5">>, <<"0", ".", "0">>, <<"1", "2", "a">> }
Cells ==
    {NoneV, Num(0), Num(12345), Num(0 - 4999), Num(1700), NaNV, ListV}
        \cup {Str(s) : s \in CellTexts}

\* the digits of a natural number
RECURSIVE DigitsOf(_)
DigitsOf(n) ==
    LET d == <<"0", "1", "2", "3", "4", "5", "6", "7", "8", "9">>[(n % 10) + 1] IN
    IF n < 10 THEN <<d>> ELSE DigitsOf(n \div 10) \o <<d>>

\* str(value): a string is itself; a float is written with its fraction
str(value) ==
    CASE value.t = "str" -> value.s
      [] value.t = "nan" -> <<"n", "a", "n">>
      [] value.t = "list" -> <<"[", "]">>
      [] value.t = "num" ->
            LET a == IF value.v < 0 THEN 0 - value.v ELSE value.v
                frac == DigitsOf(1000 + (a % 1000))
            IN  (IF value.v < 0 THEN <<"-">> ELSE <<>>)
                    \o DigitsOf(a \div 1000) \o <<".">> \o Tail(frac)

\* baostock_hist_daily.to_float
bs_to_float(value) ==
    IF value.t = "none" THEN Null
    ELSE LET text == Strip(str(value)) IN
         IF text = <<>> \/ Lower(text) = <<"n", "u", "l", "l">> THEN Null
         ELSE LET f == float(Str(text)) IN
              IF f.t = "ValueError" THEN Null ELSE f

NotMapped == [by |-> "none", out |-> Null]

FieldInit ==
    /\ cell \in Cells
    /\ fieldPc = "row"
    /\ mapped = NotMapped

FieldIdle ==
    /\ cell = NoneV
    /\ fieldPc = "idle"
    /\ mapped = NotMapped

Map(by, out) ==
    /\ fieldPc = "row"
    /\ mapped' = [by |-> by, out |-> out]
    /\ fieldPc' = "mapped"
    /\ UNCHANGED <<cell, notField>>

\* save_to_sqlite: to_float(row.get("close"))
FlowClose == Map("to_float", to_float(cell))

\* save_to_sqlite: to_pct(row.get("pct_chg")) and the five ratios
FlowPct == Map("to_pct", to_pct(cell))

\* save_to_sqlite: to_amount(row.get("main")) and the four other amounts
FlowAmount == Map("to_amount", to_amount(cell))

\* baostock_hist_daily.main: to_float(row.get("open")) and the eleven others
DailyCell == Map("bs_to_float", bs_to_float(cell))

NextField == FlowClose \/ FlowPct \/ FlowAmount \/ DailyCell

(***************************************************************************)
(* daily_bulk_flow.fetch_all_stock_codes: the pages of the code list       *)
(***************************************************************************)
\* the page after which the model stops the listing (the code stops at 200)
MaxPages == 3

\* range(5), delay = 1.0, min(delay * 2, 8)
GetAttempts == 5
FirstDelay == 1
DelayCap == 8

\* random.uniform(0, 0.5), in hundredths of a second
Jitters == {0, 25, 50}

\* a backoff that does not grow
SameDelay(d) == d

\* delay = min(delay * 2, 8)
NextDelay(d) == IF d * 2 < DelayCap THEN d * 2 ELSE DelayCap

PagesInit ==
    /\ pn = 1
    /\ pagePc = "top"
    /\ tries = 0
    /\ delay = FirstDelay
    /\ gets = 0
    /\ sleeps = <<>>

PagesIdle ==
    /\ pn = 0
    /\ pagePc = "idle"
    /\ tries = 0
    /\ delay = 0
    /\ gets = 0
    /\ sleeps = <<>>

\* lines 143-150: a new page; _ensure_proxy(), the url, delay = 1.0
PageTop ==
    /\ pagePc = "top"
    /\ delay' = FirstDelay
    /\ tries' = 0
    /\ gets' = 0
    /\ sleeps' = <<>>
    /\ pagePc' = "try"
    /\ UNCHANGED <<pn, notPages>>

\* lines 150-170, one pass of the for loop: the GET and raise_for_status()
\* succeed, the page is read, and the listing ends on an empty page or
\* after the last page
GetPage ==
    /\ pagePc = "try"
    /\ tries < GetAttempts
    /\ gets' = gets + 1
    /\ \E empty \in BOOLEAN :
          IF empty THEN pagePc' = "done" /\ pn' = pn
          ELSE /\ pn' = pn + 1
               /\ pagePc' = IF pn + 1 > MaxPages THEN "done" ELSE "top"
    /\ UNCHANGED <<tries, delay, sleeps, notPages>>

\* lines 152-159, one pass of the for loop: RequestException; the fifth
\* is raised again, the others are followed by a sleep and a longer delay
GetFails ==
    /\ pagePc = "try"
    /\ tries < GetAttempts
    /\ gets' = gets + 1
    /\ IF tries = GetAttempts - 1
       THEN /\ pagePc' = "raised"
            /\ UNCHANGED <<tries, delay, sleeps>>
       ELSE /\ \E j \in Jitters : sleeps' = Append(sleeps, [base |-> delay, jitter |-> j])
            /\ delay' = NextDelay(delay)
            /\ tries' = tries + 1
            /\ pagePc' = "try"
    /\ UNCHANGED <<pn, notPages>>

NextPages == PageTop \/ GetPage \/ GetFails

(***************************************************************************)
(* web/app.py: the in-memory rate limiter of the RSS routes                *)
(***************************************************************************)
\* the requests in flight, the last tick of time.time(), and
\* RATE_LIMIT_WINDOW in ticks
MaxRequests == 4
MaxInFlight == 2
MaxRssClock == 3
WindowTicks == 2

\* RATE_LIMIT_REQUESTS: int(os.environ.get('RSS_RATE_LIMIT', '1'))
RateLimits == {1, 2}

RssRequests == 1..MaxRequests
Ips == {"ip:10.0.0.1", "ip:10.0.0.2"}
Tokens == {"tok:alpha"}
RateKeys == Ips \cup Tokens

\* while q and (now - q[0]) > RATE_LIMIT_WINDOW: q.popleft()
RECURSIVE DropOld(_, _)
DropOld(q, t) ==
    IF q # <<>> /\ (t - Head(q)) > WindowTicks THEN DropOld(Tail(q), t) ELSE q

\* the body of "with _RL_LOCK" for bucket q, the time t read before it and
\* the limit n: whether the request passes, and the bucket afterwards
rate_check_and_consume(q, t, n) ==
    LET kept == DropOld(q, t) IN
    IF Len(kept) >= n THEN [ok |-> FALSE, q |-> kept]
    ELSE [ok |-> TRUE, q |-> Append(kept, t)]

NewRequest == [pc |-> "new", key |-> "none", stamp |-> 0, status |-> 0]
InFlight == {r \in RssRequests : req[r].pc \in {"locking", "token"}}

BucketInit ==
    /\ limitR \in RateLimits
    /\ rssClock = 0
    /\ buckets = [k \in RateKeys |-> <<>>]
    /\ req = [r \in RssRequests |-> NewRequest]
    /\ accepted = [k \in RateKeys |-> <<>>]

BucketIdle ==
    /\ limitR = 0
    /\ rssClock = 0
    /\ buckets = [k \in RateKeys |-> <<>>]
    /\ req = [r \in RssRequests |-> NewRequest]
    /\ accepted = [k \in RateKeys |-> <<>>]

\* time passes
RssTick ==
    /\ rssClock < MaxRssClock
    /\ rssClock' = rssClock + 1
    /\ UNCHANGED <<limitR, buckets, req, accepted, notBucket>>

\* generate_rss_response, lines 1577-1578 and 92: a request of some address
\* enters _rate_check_and_consume for its address and reads the time (the
\* requests are numbered in the order in which they do so)
IpNow ==
    \E r \in RssRequests, ip \in Ips :
        /\ req[r].pc = "new"
        /\ \A o \in 1..(r - 1) : req[o].pc # "new"
        /\ Cardinality(InFlight) < MaxInFlight
        /\ req' = [req EXCEPT ![r] = [pc |-> "locking", key |-> ip,
                                      stamp |-> rssClock, status |-> 0]]
        /\ UNCHANGED <<limitR, rssClock, buckets, accepted, notBucket>>

\* lines 1583-1584 and 92: the same for the token of the request
TokenNow ==
    \E r \in RssRequests, tok \in Tokens :
        /\ req[r].pc = "token"
        /\ req' = [req EXCEPT ![r].pc = "locking", ![r].key = tok, ![r].stamp = rssClock]
        /\ UNCHANGED <<limitR, rssClock, buckets, accepted, notBucket>>

\* lines 93-102 under the lock, and what generate_rss_response does with the
\* answer: 429 for a refusal; after the address the token is checked, after
\* the token the feed is built
CheckAndConsume ==
    \E r \in RssRequests :
        /\ req[r].pc = "locking"
        /\ LET k == req[r].key
               res == rate_check_and_consume(buckets[k], req[r].stamp, limitR)
           IN  /\ buckets' = [buckets EXCEPT ![k] = res.q]
               /\ accepted' = IF res.ok
                                THEN [accepted EXCEPT ![k] = Append(@, req[r].stamp)]
                                ELSE accepted
               /\ req' = [req EXCEPT
                            ![r].pc = IF res.ok /\ k \in Ips THEN "token" ELSE "done",
                            ![r].key = IF res.ok /\ k \in Ips THEN k ELSE "none",
                            ![r].stamp = 0,
                            ![r].status = IF ~res.ok THEN 429
                                          ELSE IF k \in Ips THEN 0 ELSE 200]
        /\ UNCHANGED <<limitR, rssClock, notBucket>>

NextBucket == RssTick \/ IpNow \/ TokenNow \/ CheckAndConsume

(***************************************************************************)
(* daily_bulk_flow.main: the choice of the run mode                        *)
(***************************************************************************)
\* BULK_WORKERS_DEFAULT
WorkersDefault == 20

\* an optional string argument: absent (None), or the text that followed it
ArgNone == [given |-> FALSE, text |-> ""]
Arg(text) == [given |-> TRUE, text |-> text]

\* the command lines: --db is always there (argparse requires it)
CommandLines ==
    [full_history : BOOLEAN,
     fill_to : {ArgNone, Arg(""), Arg("2024-01-05")},
     date : {ArgNone, Arg(""), Arg("2024-01-02")},
     schedule : BOOLEAN,
     workers : {Unset, 0, 4},
     refresh_codes : BOOLEAN]

\* an argument that counts whenever it stands on the command line
OnCommandLine(a) == a.given

\* the truth value of an optional string: None and "" are false
Truthy(a) == a.given /\ a.text # ""

\* max(1, args.workers or BULK_WORKERS_DEFAULT)
WorkersArg(w) ==
    LET v == IF w = Unset \/ w = 0 THEN WorkersDefault ELSE w IN
    IF v < 1 THEN 1 ELSE v

\* the if / elif chain of main: the driver calls it makes, in order
Dispatch(args) ==
    LET workers == WorkersArg(args.workers) IN
    IF args.full_history
      THEN <<[fn |-> "run_full_history", date |-> "", workers |-> workers,
              refresh |-> args.refresh_codes]>>
    ELSE IF Truthy(args.fill_to)
      THEN <<[fn |-> "run_full_range", date |-> args.fill_to.text, workers |-> workers,
              refresh |-> args.refresh_codes]>>
    ELSE IF Truthy(args.date)
      THEN <<[fn |-> "run_for_date", date |-> args.date.text, workers |-> workers,
              refresh |-> args.refresh_codes]>>
    ELSE IF args.schedule
      THEN <<[fn |-> "scheduler_loop", date |-> "", workers |-> WorkersDefault,
              refresh |-> FALSE]>>
    ELSE <<[fn |-> "run_for_date", date |-> "today", workers |-> workers,
            refresh |-> args.refresh_codes]>>

CliInit ==
    /\ cliArgs \in CommandLines
    /\ cliPc = "parsed"
    /\ entered = <<>>

CliIdle ==
    /\ cliArgs = [full_history |-> FALSE, fill_to |-> ArgNone, date |-> ArgNone,
                  schedule |-> FALSE, workers |-> Unset, refresh_codes |-> FALSE]
    /\ cliPc = "idle"
    /\ entered = <<>>

\* main, lines 375-392
Main ==
    /\ cliPc = "parsed"
    /\ entered' = Dispatch(cliArgs)
    /\ cliPc' = "called"
    /\ UNCHANGED <<cliArgs, notCli>>

NextCli == Main

(***************************************************************************)
(* serverchan_fund_alert.poll_once over one run of monitor                 *)
(***************************************************************************)
\* the polls of one run of monitor
MaxAlertPolls == 3

\* the codes of the ranking, and the main inflow of a row in units of 5e7
\* yuan (None for a cell pandas holds as missing)
AlertCodes == {"600519", "000001"}
AlertAmounts == {NoneV, Num(0 - 1), Num(1), Num(2), Num(3), Num(4)}
HalfUnits == 2

\* a level that is reached again counts as new
AtLeast(cur, last) == cur >= last

\* line 391: current_floor > last_floor
Exceeds(cur, last) == cur > last

\* line 387: int(snap.amount // 100_000_000)
current_floor(amount) == amount.v \div HalfUnits

\* lines 383-393: the codes the loop over the snapshots appends to triggered
Triggered(snapshots, known) ==
    {c \in AlertCodes :
        /\ snapshots[c] # NoneV
        /\ ~(current_floor(snapshots[c]) <= 0)
        /\ Exceeds(current_floor(snapshots[c]), known[c])}

NoPoll == [kind |-> "none", triggered |-> {}, floors |-> [c \in AlertCodes |-> 0],
           before |-> [c \in AlertCodes |-> 0]]

AlertInit ==
    /\ notified = [c \in AlertCodes |-> 0]
    /\ alerted = {}
    /\ repeated = {}
    /\ polls = 0
    /\ lastPoll = NoPoll

AlertIdle ==
    /\ notified = [c \in AlertCodes |-> 0]
    /\ alerted = {}
    /\ repeated = {}
    /\ polls = Unset
    /\ lastPoll = NoPoll

\* poll_once, lines 372-380: no configuration, or fetch_fund_flow raises
PollSkipped ==
    /\ polls >= 0 /\ polls < MaxAlertPolls
    /\ polls' = polls + 1
    /\ \E kind \in {"no_configs", "fetch_raised"} : lastPoll' = [NoPoll EXCEPT !.kind = kind]
    /\ UNCHANGED <<notified, alerted, repeated, notAlert>>

\* poll_once, lines 372-418, with a ranking: one snapshot per code; the codes
\* whose level has risen are triggered and remembered, and pushed to every
\* configured user
PollOnce ==
    /\ polls >= 0 /\ polls < MaxAlertPolls
    /\ polls' = polls + 1
    /\ \E snapshots \in [AlertCodes -> AlertAmounts] :
          LET trig == Triggered(snapshots, notified)
              pairs == {<<c, current_floor(snapshots[c])>> : c \in trig}
          IN  /\ notified' = [c \in AlertCodes |->
                                 IF c \in trig THEN current_floor(snapshots[c])
                                 ELSE notified[c]]
              /\ alerted' = alerted \cup pairs
              /\ repeated' = repeated \cup (alerted \cap pairs)
              /\ lastPoll' = [kind |-> "ranking", triggered |-> trig,
                              floors |-> [c \in AlertCodes |->
                                            IF snapshots[c] = NoneV THEN 0
                                            ELSE current_floor(snapshots[c])],
                              before |-> notified]
    /\ UNCHANGED notAlert

NextAlert == PollSkipped \/ PollOnce

(***************************************************************************)
(* web/app.py: the daily snapshot worker                                   *)
(***************************************************************************)
\* the calls of _start_daily_snapshot_worker, the last calendar date, and the
\* passes of the worker's loop
MaxStartCalls == 3
MaxSnapDate == 2
MaxSnapTicks == 4

SnapUsers == {1, 2}

\* a flag that is never seen as set
NeverStarted(flag) == FALSE

\* line 944: if _DAILY_SNAPSHOT_THREAD_STARTED
AlreadyStarted(flag) == flag

SnapInit ==
    /\ thread_started = FALSE
    /\ threads = 0
    /\ startCalls = 0
    /\ snapDate = 0
    /\ last_recorded = Unset
    /\ snapLog = <<>>

SnapIdle ==
    /\ thread_started = FALSE
    /\ threads = 0
    /\ startCalls = Unset
    /\ snapDate = 0
    /\ last_recorded = Unset
    /\ snapLog = <<>>

\* _start_daily_snapshot_worker, lines 942-963
StartWorker ==
    /\ startCalls >= 0 /\ startCalls < MaxStartCalls
    /\ startCalls' = startCalls + 1
    /\ IF AlreadyStarted(thread_started)
         THEN UNCHANGED <<thread_started, threads>>
         ELSE /\ threads' = threads + 1
              /\ thread_started' = TRUE
    /\ UNCHANGED <<snapDate, last_recorded, snapLog, notSnap>>

\* midnight in China
SnapMidnight ==
    /\ startCalls >= 0
    /\ snapDate < MaxSnapDate
    /\ snapDate' = snapDate + 1
    /\ UNCHANGED <<thread_started, threads, startCalls, last_recorded, snapLog, notSnap>>

\* _worker, lines 950-959: one pass of the loop.  On a new date the users
\* are read and a snapshot is recorded for each; an error for one user is
\* logged and the next user is taken (lines 932-936); an error of the query
\* for the users leaves last_recorded as it was
WorkerTick ==
    /\ threads >= 1
    /\ Len(snapLog) < MaxSnapTicks
    /\ IF snapDate # last_recorded
         THEN \/ /\ snapLog' = Append(snapLog, [date |-> snapDate, result |-> "raised",
                                                 recorded |-> {}])
                 /\ UNCHANGED last_recorded
              \/ \E done \in SUBSET SnapUsers :
                    /\ snapLog' = Append(snapLog, [date |-> snapDate, result |-> "ok",
                                                    recorded |-> done])
                    /\ last_recorded' = snapDate
         ELSE /\ snapLog' = Append(snapLog, [date |-> snapDate, result |-> "skipped",
                                              recorded |-> {}])
              /\ UNCHANGED last_recorded
    /\ UNCHANGED <<thread_started, threads, startCalls, snapDate, notSnap>>

NextSnap == StartWorker \/ SnapMidnight \/ WorkerTick

(***************************************************************************)
(* scripts/rss_fund_flow.py: the minute feed                               *)
(***************************************************************************)
\* the runs of run_once, the minutes the interface reports, and the items
\* the file keeps (max_items on line 154, 500 in the source)
MaxFeedRuns == 3
MaxFeedMinute == 2
max_items == 3

FeedNames == {"n1", "n2"}
FeedSymbols == {"000981.SZ", "300661.SZ"}
FeedMinutes == 1 .. MaxFeedMinute

\* line 189: guid = f"{symbol}_{row['time']}"
Guid(symbol, minute) == <<symbol, minute>>

\* the order of symbols.items()
FeedOrder == <<"n1", "n2">>

\* a fetch without a row (lines 180-184)
NoMinute == 0

\* run_once, lines 178-214: one item per name whose fetch gave a row
RECURSIVE ItemsOf(_, _, _)
ItemsOf(symbols, rows, i) ==
    IF i > Len(FeedOrder) THEN <<>>
    ELSE LET name == FeedOrder[i]
         IN  (IF rows[name] = NoMinute THEN <<>>
              ELSE <<Guid(symbols[name], rows[name])>>)
             \o ItemsOf(symbols, rows, i + 1)

\* read_existing_guids, lines 116-129
read_existing_guids(file) == {file[i] : i \in 1 .. Len(file)}

\* lines 144-151: the items whose guid is not in seen are appended; seen is
\* the set read on line 142 and is not added to inside the loop
RECURSIVE AppendNew(_, _, _)
AppendNew(out, items, seen) ==
    IF items = <<>> THEN out
    ELSE AppendNew(IF Head(items) \in seen THEN out ELSE Append(out, Head(items)),
                   Tail(items), seen)

\* lines 154-158: the items before the last max_items are removed
Overflow(items) == IF Len(items) > max_items THEN Len(items) - max_items ELSE 0

Trimmed(items) == SubSeq(items, Overflow(items) + 1, Len(items))

\* append_items, lines 132-162: the file it writes
append_items(file, items) == Trimmed(AppendNew(file, items, read_existing_guids(file)))

NoRun == [before |-> <<>>, items |-> <<>>, grown |-> <<>>]

FeedInit ==
    /\ feedSymbols \in [FeedNames -> FeedSymbols]
    /\ rssFile = <<>>
    /\ feedRuns = 0
    /\ lastRun = NoRun

FeedIdle ==
    /\ feedSymbols = [n \in FeedNames |-> "000981.SZ"]
    /\ rssFile = <<>>
    /\ feedRuns = Unset
    /\ lastRun = NoRun

\* run_once, lines 165-216, append_items included
RunOnce ==
    /\ feedRuns >= 0 /\ feedRuns < MaxFeedRuns
    /\ feedRuns' = feedRuns + 1
    /\ \E rows \in [FeedNames -> FeedMinutes \cup {NoMinute}] :
          LET items == ItemsOf(feedSymbols, rows, 1)
          IN  /\ rssFile' = append_items(rssFile, items)
              /\ lastRun' = [before |-> rssFile, items |-> items,
                             grown |-> AppendNew(rssFile, items,
                                                 read_existing_guids(rssFile))]
    /\ UNCHANGED <<feedSymbols, notFeed>>

NextFeed == RunOnce

(***************************************************************************)
(* web/app.py: the holdings replayed from the trade log                    *)
(***************************************************************************)
\* the rows of trade_logs one call of _build_portfolio replays
MaxTradeRows == 3

TradeSymbols == {"600519.SH", "000001.OF"}
TradeActions == {"buy", "sell", "dividend"}
\* the trade forms accept a quantity above 0 and, for a buy or a sell, a
\* price above 0 (lines 1268-1271 and 1382-1385)
TradeQuantities == {1, 2}
TradePrices == {1, 2}
TradeFees == {0, 1}

\* amounts are fractions n / d in lowest terms, d > 0
RECURSIVE Gcd(_, _)
Gcd(a, b) == IF b = 0 THEN a ELSE Gcd(b, a % b)

Magnitude(n) == IF n < 0 THEN 0 - n ELSE n

Amount(n, d) ==
    LET g == Gcd(Magnitude(n), d)
    IN  IF n = 0 THEN [n |-> 0, d |-> 1] ELSE [n |-> n \div g, d |-> d \div g]

Whole(k) == [n |-> k, d |-> 1]
NoAmount == Whole(0)
Plus(x, y) == Amount(x.n * y.d + y.n * x.d, x.d * y.d)
Minus(x, y) == Amount(x.n * y.d - y.n * x.d, x.d * y.d)
Times(x, k) == Amount(x.n * k, x.d)
Over(x, k) == Amount(x.n, x.d * k)

\* a symbol without an entry, and the entry of line 708
NoHolding == [held |-> FALSE, qty |-> 0, avg_cost |-> NoAmount]
NewEntry == [held |-> TRUE, qty |-> 0, avg_cost |-> NoAmount]

\* a holding that goes below zero only
BelowZero(qty) == qty < 0

\* line 729: if entry['qty'] <= 0
Emptied(qty) == qty <= 0

\* lines 711-716
Bought(entry, row) ==
    LET total_cost == Plus(Times(entry.avg_cost, entry.qty),
                           Whole(row.quantity * row.price + row.fee + row.stamp_tax))
        qty == entry.qty + row.quantity
    IN  [held |-> TRUE, qty |-> qty,
         avg_cost |-> IF qty > 0 THEN Over(total_cost, qty) ELSE NoAmount]

\* lines 718-723: the profit of a sale
Profit(entry, row) ==
    LET available_qty == entry.qty
        avg_cost == IF available_qty > 0 THEN entry.avg_cost ELSE NoAmount
        proceeds == Whole(row.quantity * row.price - row.fee - row.stamp_tax)
        sell_qty == IF available_qty <= 0 THEN row.quantity
                    ELSE IF row.quantity < available_qty THEN row.quantity
                    ELSE available_qty
    IN  Minus(proceeds, Times(avg_cost, sell_qty))

\* lines 728-731
Sold(entry, row) ==
    LET qty == entry.qty - row.quantity
    IN  IF Emptied(qty) THEN [held |-> TRUE, qty |-> 0, avg_cost |-> NoAmount]
        ELSE [held |-> TRUE, qty |-> qty, avg_cost |-> entry.avg_cost]

\* line 733
Dividend(row) == Whole(row.quantity * row.price - row.fee - row.stamp_tax)

TradeRows ==
    [symbol : TradeSymbols, action : TradeActions, quantity : TradeQuantities,
     price : TradePrices, fee : TradeFees, stamp_tax : {0}, in_period : BOOLEAN]

NoTrade == [symbol |-> "none", action |-> "none", available |-> 0]

\* line 740: the holdings with a quantity above 0
NonEmpty(hs) == {s \in TradeSymbols : hs[s].held /\ hs[s].qty > 0}

BookInit ==
    /\ bookPc = "replay"
    /\ holdings = [s \in TradeSymbols |-> NoHolding]
    /\ realized = [period |-> [s \in TradeSymbols |-> NoAmount],
                   total |-> NoAmount, all_time |-> NoAmount]
    /\ replayed = 0
    /\ lastTrade = NoTrade
    /\ returned = {}

BookIdle ==
    /\ bookPc = "idle"
    /\ holdings = [s \in TradeSymbols |-> NoHolding]
    /\ realized = [period |-> [s \in TradeSymbols |-> NoAmount],
                   total |-> NoAmount, all_time |-> NoAmount]
    /\ replayed = 0
    /\ lastTrade = NoTrade
    /\ returned = {}

\* what a row adds to the realized sums (lines 724-727 and 734-737)
Realize(sums, row, gain) ==
    [period |-> IF row.in_period
                  THEN [sums.period EXCEPT ![row.symbol] = Plus(@, gain)]
                  ELSE sums.period,
     total |-> IF row.in_period THEN Plus(sums.total, gain) ELSE sums.total,
     all_time |-> Plus(sums.all_time, gain)]

\* lines 695-737: one pass of the loop over the rows
ReplayRow ==
    /\ bookPc = "replay"
    /\ replayed < MaxTradeRows
    /\ replayed' = replayed + 1
    /\ \E row \in TradeRows :
          LET entry == IF holdings[row.symbol].held THEN holdings[row.symbol]
                       ELSE NewEntry
          IN  /\ lastTrade' = [symbol |-> row.symbol, action |-> row.action,
                               available |-> entry.qty, quantity |-> row.quantity]
              /\ CASE row.action = "buy" ->
                        /\ holdings' = [holdings EXCEPT ![row.symbol] = Bought(entry, row)]
                        /\ UNCHANGED realized
                   [] row.action = "sell" ->
                        /\ holdings' = [holdings EXCEPT ![row.symbol] = Sold(entry, row)]
                        /\ realized' = Realize(realized, row, Profit(entry, row))
                   [] row.action = "dividend" ->
                        /\ holdings' = [holdings EXCEPT ![row.symbol] = entry]
                        /\ realized' = Realize(realized, row, Dividend(row))
    /\ UNCHANGED <<bookPc, returned, notBook>>

\* lines 739-746: the rows are exhausted and the holdings are returned
ReturnPortfolio ==
    /\ bookPc = "replay"
    /\ bookPc' = "returned"
    /\ returned' = NonEmpty(holdings)
    /\ UNCHANGED <<holdings, realized, replayed, lastTrade, notBook>>

NextBook == ReplayRow \/ ReturnPortfolio

(***************************************************************************)
(* web/app.py: the routes of the RSS feed                                  *)
(***************************************************************************)
\* the settings of RSS_PREFIX (lines 54 and 72), the users and their tokens,
\* and the first path segment of a request for /<segment>/<token>.rss
PrefixSettings == {"username", "feeds", ""}
FeedUsernames == {"alice", "u", "feeds"}
FeedTokens == {"tok1", "tok2"}
UnknownToken == "tok0"
PathSegments == {"u", "alice", "feeds", "username"}

\* the rule that matches /<segment>/<token>.rss: the rule with the fixed
\* segment u (line 1859) goes before the rule with a converter (line 1864)
RouteOf(segment) == IF segment = "u" THEN "user_rss" ELSE "prefixed_rss"

\* _find_user_by_token, lines 1566-1572
NoUser == "none"
find_user_by_token(table, token) ==
    IF token \in DOMAIN table THEN table[token] ELSE NoUser

\* generate_rss_response, lines 1575-1856: refused by the limiter (lines
\* 1578-1588), unknown token (lines 1590-1592), or the feed
generate_rss_response(table, token, limited) ==
    IF limited THEN 429
    ELSE IF find_user_by_token(table, token) = NoUser THEN 404
    ELSE 200

\* lines 1870-1875: the prefix the policy asks for
PolicyPrefix(setting, username) ==
    IF setting = "username" THEN username ELSE setting

\* prefixed_rss, lines 1865-1876
prefixed_rss(setting, table, prefix, token, limited) ==
    LET row == find_user_by_token(table, token)
    IN  IF row = NoUser THEN 404
        ELSE IF prefix # PolicyPrefix(setting, row) THEN 404
        ELSE generate_rss_response(table, token, limited)

\* user_rss, lines 1859-1861
user_rss(table, token, limited) == generate_rss_response(table, token, limited)

NoFeedRequest == [route |-> "none", prefix |-> "", token |-> UnknownToken, status |-> 0]

GateInit ==
    /\ RSS_PREFIX \in PrefixSettings
    /\ tokenOwner \in [FeedTokens -> FeedUsernames]
    /\ feedRequest = NoFeedRequest

GateIdle ==
    /\ RSS_PREFIX = "username"
    /\ tokenOwner = [t \in FeedTokens |-> "alice"]
    /\ feedRequest = NoFeedRequest

\* a request for /u/<token>.rss
GetUserRss ==
    \E token \in FeedTokens \cup {UnknownToken}, limited \in BOOLEAN :
        /\ RouteOf("u") = "user_rss"
        /\ feedRequest' = [route |-> "user_rss", prefix |-> "u", token |-> token,
                           status |-> user_rss(tokenOwner, token, limited)]
        /\ UNCHANGED <<RSS_PREFIX, tokenOwner, notGate>>

\* a request for /<prefix>/<token>.rss with another first segment
GetPrefixedRss ==
    \E prefix \in PathSegments, token \in FeedTokens \cup {UnknownToken},
       limited \in BOOLEAN :
        /\ RouteOf(prefix) = "prefixed_rss"
        /\ feedRequest' = [route |-> "prefixed_rss", prefix |-> prefix, token |-> token,
                           status |-> prefixed_rss(RSS_PREFIX, tokenOwner, prefix,
                                                   token, limited)]
        /\ UNCHANGED <<RSS_PREFIX, tokenOwner, notGate>>

NextGate == GetUserRss \/ GetPrefixedRss

LaterIdle == RangeIdle /\ SchedIdle /\ UpsertIdle /\ CacheIdle /\ TodayIdle /\ WebIdle

\* a component that takes no part in a run
NormIdle ==
    /\ raw = <<>>
    /\ npc = "idle"
    /\ parsed = Invalid
    /\ tsParsed = Invalid
    /\ reparsed = Invalid
    /\ dotted = [ps |-> Invalid, ts |-> Invalid]

StoreIdle ==
    /\ backend = "none"
    /\ db = [flow |-> {}, profile |-> {}]
    /\ lastFlow = [k \in FlowKeys |-> Absent]
    /\ lastCall = NoCall

EarlierIdle == NormIdle /\ StoreIdle /\ RateIdle /\ ProxyIdle /\ RunIdle

\* ---- the remaining components at rest, and their specifications
ThirdIdle == FieldIdle /\ PagesIdle /\ BucketIdle /\ CliIdle /\ AlertIdle /\ SnapIdle /\ FeedIdle /\ BookIdle /\ GateIdle

InitField ==
    /\ FieldInit
    /\ EarlierIdle
    /\ LaterIdle
    /\ PagesIdle
    /\ BucketIdle
    /\ CliIdle
    /\ AlertIdle
    /\ SnapIdle
    /\ FeedIdle
    /\ BookIdle
    /\ GateIdle

SpecField == InitField /\ [][NextField]_vars

InitPages ==
    /\ PagesInit
    /\ EarlierIdle
    /\ LaterIdle
    /\ FieldIdle
    /\ BucketIdle
    /\ CliIdle
    /\ AlertIdle
    /\ SnapIdle
    /\ FeedIdle
    /\ BookIdle
    /\ GateIdle

SpecPages == InitPages /\ [][NextPages]_vars

InitBucket ==
    /\ BucketInit
    /\ EarlierIdle
    /\ LaterIdle
    /\ FieldIdle
    /\ PagesIdle
    /\ CliIdle
    /\ AlertIdle
    /\ SnapIdle
    /\ FeedIdle
    /\ BookIdle
    /\ GateIdle

SpecBucket == InitBucket /\ [][NextBucket]_vars

InitCli ==
    /\ CliInit
    /\ EarlierIdle
    /\ LaterIdle
    /\ FieldIdle
    /\ PagesIdle
    /\ BucketIdle
    /\ AlertIdle
    /\ SnapIdle
    /\ FeedIdle
    /\ BookIdle
    /\ GateIdle

SpecCli == InitCli /\ [][NextCli]_vars

InitAlert ==
    /\ AlertInit
    /\ EarlierIdle
    /\ LaterIdle
    /\ FieldIdle
    /\ PagesIdle
    /\ BucketIdle
    /\ CliIdle
    /\ SnapIdle
    /\ FeedIdle
    /\ BookIdle
    /\ GateIdle

SpecAlert == InitAlert /\ [][NextAlert]_vars

InitSnap ==
    /\ SnapInit
    /\ EarlierIdle
    /\ LaterIdle
    /\ FieldIdle
    /\ PagesIdle
    /\ BucketIdle
    /\ CliIdle
    /\ AlertIdle
    /\ FeedIdle
    /\ BookIdle
    /\ GateIdle

SpecSnap == InitSnap /\ [][NextSnap]_vars

InitFeed ==
    /\ FeedInit
    /\ EarlierIdle
    /\ LaterIdle
    /\ FieldIdle
    /\ PagesIdle
    /\ BucketIdle
    /\ CliIdle
    /\ AlertIdle
    /\ SnapIdle
    /\ BookIdle
    /\ GateIdle

SpecFeed == InitFeed /\ [][NextFeed]_vars

InitBook ==
    /\ BookInit
    /\ EarlierIdle
    /\ LaterIdle
    /\ FieldIdle
    /\ PagesIdle
    /\ BucketIdle
    /\ CliIdle
    /\ AlertIdle
    /\ SnapIdle
    /\ FeedIdle
    /\ GateIdle

SpecBook == InitBook /\ [][NextBook]_vars

InitGate ==
    /\ GateInit
    /\ EarlierIdle
    /\ LaterIdle
    /\ FieldIdle
    /\ PagesIdle
    /\ BucketIdle
    /\ CliIdle
    /\ AlertIdle
    /\ SnapIdle
    /\ FeedIdle
    /\ BookIdle

SpecGate == InitGate /\ [][NextGate]_vars
\* ---- end of the specifications of the remaining components

InitRange == RangeInit /\ EarlierIdle /\ SchedIdle /\ UpsertIdle /\ CacheIdle /\ TodayIdle /\ WebIdle
    /\ ThirdIdle

InitSched == SchedInit /\ EarlierIdle /\ RangeIdle /\ UpsertIdle /\ CacheIdle /\ TodayIdle /\ WebIdle
    /\ ThirdIdle

InitUpsert == UpsertInit /\ EarlierIdle /\ RangeIdle /\ SchedIdle /\ CacheIdle /\ TodayIdle /\ WebIdle
    /\ ThirdIdle

InitCache == CacheInit /\ EarlierIdle /\ RangeIdle /\ SchedIdle /\ UpsertIdle /\ TodayIdle /\ WebIdle
    /\ ThirdIdle

InitToday == TodayInit /\ EarlierIdle /\ RangeIdle /\ SchedIdle /\ UpsertIdle /\ CacheIdle /\ WebIdle
    /\ ThirdIdle

SpecToday == InitToday /\ [][NextToday]_vars

InitWeb ==
    WebInit /\ EarlierIdle /\ RangeIdle /\ SchedIdle /\ UpsertIdle /\ CacheIdle /\ TodayIdle
    /\ ThirdIdle

SpecWeb == InitWeb /\ [][NextWeb]_vars

SpecCache == InitCache /\ [][NextCache]_vars

SpecUpsert == InitUpsert /\ [][NextUpsert]_vars

SpecSched == InitSched /\ [][NextSched]_vars

SpecRange == InitRange /\ [][NextRange]_vars

\* the interpreter keeps running the call until it returns or raises
FairRange == SpecRange /\ WF_vars(NextRange)

InitRun == RunInit /\ NormIdle /\ RateIdle /\ ProxyIdle /\ LaterIdle /\ ThirdIdle

SpecRun ==
    InitRun /\ [][CallRun \/ WakeUp \/ Interrupt \/ TaskStart \/ TaskAttempt \/ Consume
                     \/ Finish \/ Unwound \/ Poll]_vars

InitStore == StoreInit /\ NormIdle /\ RateIdle /\ ProxyIdle /\ RunIdle /\ LaterIdle /\ ThirdIdle

SpecStore == InitStore /\ [][SaveToSqlite \/ SaveDailyFlowRows]_vars

InitRate == RateInit /\ NormIdle /\ StoreIdle /\ ProxyIdle /\ RunIdle /\ LaterIdle /\ ThirdIdle

SpecRate == InitRate /\ [][WaitCall \/ WaitLoop \/ WaitWake \/ Tick]_vars

\* the number of calls let through at the ticks lo..hi
RECURSIVE AdmittedIn(_, _)
AdmittedIn(lo, hi) ==
    IF hi < lo THEN 0
    ELSE (IF hi \in 0..MaxClock THEN admitted[hi] ELSE 0) + AdmittedIn(lo, hi - 1)

\* C5: for any max_calls >= 1 and any period, no more than max_calls calls are
\* let through within any window of length period, the window reaching back
\* from a tick t to just after t - period.
C5_RollingWindow ==
    \A t \in 0..MaxClock : AdmittedIn(t - period + 1, t) <= max_calls

\* with max_calls = 2, a third request found the window full, slept, and was
\* let through after the sleep
C5_Witness ==
    /\ max_calls = 2
    /\ slept
    /\ rlPc = "idle"
    /\ AdmittedIn(0, MaxClock) >= 3
    /\ \E t \in 0..MaxClock : admitted[t] > 0 /\ AdmittedIn(t - period + 1, t) = 2

InitProxy == ProxyInit /\ NormIdle /\ StoreIdle /\ RateIdle /\ RunIdle /\ LaterIdle /\ ThirdIdle

SpecProxy ==
    InitProxy /\ [][FetchDayK \/ FetchBasicProfile \/ FetchRank \/ FetchFundFlow
                        \/ SetCustomProxy]_vars

\* C7: a logical fetch calls the upstream at most twice; the second call is made
\* only when the first raised a proxy or request error while a proxy was set,
\* and only with the proxy variables removed; with no proxy set the first error
\* is the result, and the outcome of the retry is the result whatever it is.
C7_RetryOnce ==
    \A i \in 1..Len(fetchLog) :
        LET f == fetchLog[i] IN
        /\ Len(f.calls) \in {1, 2}
        /\ Len(f.calls) = 2 =>
              /\ f.calls[1].out \in RequestErrors
              /\ f.calls[1].proxy
              /\ ~f.calls[2].proxy
        /\ ~f.calls[1].proxy => Len(f.calls) = 1
        /\ f.result = f.calls[Len(f.calls)].out

\* one fetch has retried without the proxy after a request error and the retry
\* has failed as well; a later fetch, made with no proxy set, has failed at once
C7_Witness ==
    \E i, j \in 1..Len(fetchLog) :
        /\ i < j
        /\ Len(fetchLog[i].calls) = 2
        /\ fetchLog[i].result \in RequestErrors
        /\ ~fetchLog[j].calls[1].proxy
        /\ fetchLog[j].calls[1].out \in RequestErrors
        /\ fetchLog[j].who # fetchLog[i].who

\* the log entries of the two fetch functions of fund_flow.py
FetchesOf(who) == {i \in 1..Len(fetchLog) : fetchLog[i].who = who}

RowsOf(k) == {r \in db.flow : FlowKey(r) = k}

\* C1: after any sequence of writer calls, fund_flow_daily holds exactly one row
\* for every key that was ever written and none for any other key, and that
\* row's non-key fields are those of the most recent upsert of the key, also
\* when the key occurs more than once in one batch.
C1_LastWriteWins ==
    \A k \in FlowKeys :
        IF lastFlow[k] = Absent THEN RowsOf(k) = {} ELSE RowsOf(k) = {lastFlow[k]}

\* a committed batch that wrote one key twice with different values, over a
\* different row the table already held for that key
C1_Witness ==
    /\ lastCall.kind = "save_to_sqlite"
    /\ ~lastCall.raised
    /\ lastCall.overwrote

CodeBodies == {
    <<"6","0","0","5","1","9">>,
    <<"0","0","0","0","0","1">>,
    <<"4","3","0","0","4","7">>,
    <<"8","3","2","0","0","0">>,
    <<"9","0","0","9","0","1">>,
    <<"1","6","0","0","5","1","9">>,
    <<"1","2","3","4","5">>,
    <<"a","b","j","1","2","3">>,
    <<"6","0","0","5","1","U+0663">>,
    <<"U+FF16","U+FF16","U+FF16","U+FF16","U+FF16","U+FF16">>,
    <<"6","0","0"," ","1","9">>,
    <<>> }

CodePrefixes == { <<>>, <<"s","h">>, <<"s","z">>, <<"S","Z">>, <<"b","j">>, <<"x","x">>,
                  <<" ">> }

CodeSuffixes == { <<>>, <<".","S","H">>, <<".","s","z">>, <<".","B","J">>,
                  <<".","X","A">>, <<".">>, <<".","S","H",".","S","Z">>,
                  <<"."," ","S","H">>, <<" ">> }

RawInputs == { p \o b \o s : p \in CodePrefixes, b \in CodeBodies, s \in CodeSuffixes }

\* an input of the form e+c: a lower-case exchange prefix and six ASCII digits
PrefixedForm(s) ==
    /\ Len(s) = 8
    /\ SubSeq(s, 1, 2) \in {<<"s","h">>, <<"s","z">>, <<"b","j">>}
    /\ IsAsciiDigits(SubSeq(s, 3, 8))

\* the dotted form c.E of an input e+c
DottedOf(s) == SubSeq(s, 3, 8) \o <<".">> \o Upper(SubSeq(s, 1, 2))

NoForms == [ps |-> Invalid, ts |-> Invalid]

NormInit ==
    /\ raw \in RawInputs
    /\ npc = "input"
    /\ parsed = Invalid
    /\ tsParsed = Invalid
    /\ reparsed = Invalid
    /\ dotted = NoForms

\* one call of each normalizer on the same input
Normalize ==
    /\ npc = "input"
    /\ npc' = "parsed"
    /\ parsed' = parse_stock_code(raw)
    /\ tsParsed' = normalize_ts_code(raw)
    /\ reparsed' = IF parse_stock_code(raw).ok
                     THEN parse_stock_code(Serialize(parse_stock_code(raw)))
                     ELSE Invalid
    /\ dotted' = IF PrefixedForm(raw)
                   THEN [ps |-> parse_stock_code(DottedOf(raw)),
                         ts |-> normalize_ts_code(DottedOf(raw))]
                   ELSE NoForms
    /\ UNCHANGED <<raw, notNorm>>

InitNorm == NormInit /\ StoreIdle /\ RateIdle /\ ProxyIdle /\ RunIdle /\ LaterIdle /\ ThirdIdle

SpecNorm == InitNorm /\ [][Normalize]_vars

\* what the data model allows a normalizer to return: an invalid-code report, or
\* an identifier of exactly six ASCII digits with exchange SH, SZ or BJ
WellFormed(id) ==
    \/ id = Invalid
    \/ /\ id.ok
       /\ Len(id.code) = 6
       /\ IsAsciiDigits(id.code)
       /\ id.exchange \in Exchanges

\* C10: for every input string, parse_stock_code and normalize_ts_code each
\* either report an invalid code or return an identifier whose code is exactly
\* six ASCII digits and whose exchange is SH, SZ or BJ.
C10_NormalizersWellFormed ==
    npc = "parsed" => WellFormed(parsed) /\ WellFormed(tsParsed)

\* the input is a bare code: six ASCII digits and nothing else
BareCode(s) == Len(s) = 6 /\ IsAsciiDigits(s)

\* C11: for every input that parse_stock_code accepts, among them every bare
\* six-digit code, writing the result as "code.EXCHANGE" and parsing that
\* string gives the same (code, exchange) identifier.
C11_RoundTrip ==
    npc = "parsed" /\ parsed.ok => reparsed = parsed

\* the bare code 430047 was parsed to 430047.BJ and parsed again from that string
C11_Witness ==
    /\ npc = "parsed"
    /\ raw = <<"4","3","0","0","4","7">>
    /\ parsed = Identifier(raw, BJ)
    /\ reparsed = parsed

\* C12: for every six-digit code c and exchange e in sh, sz, bj,
\* parse_stock_code and normalize_ts_code each return for e+c what they return
\* for c.E.
C12_PrefixedEqualsDotted ==
    npc = "parsed" /\ PrefixedForm(raw) =>
        /\ parsed = dotted.ps
        /\ tsParsed = dotted.ts

\* the exchange the prefix table of the data model gives a bare code: SH for
\* 600/601/603/605/688, SZ for 000/001/002/003/300/301, BJ for 430 and for
\* every prefix 83x and 87x, SH otherwise
TableExchange(s) ==
    IF StartsWithAny(s, ShPrefixes) THEN SH
    ELSE IF StartsWithAny(s, SzPrefixes) THEN SZ
    ELSE IF StartsWith(s, <<"4","3","0">>) \/ StartsWith(s, <<"8","3">>)
              \/ StartsWith(s, <<"8","7">>) THEN BJ
    ELSE SH

\* C13: for a bare six-digit input, parse_stock_code and code_to_ts_code infer
\* the exchange of the prefix table: SH, SZ, BJ for 430, 83x and 87x, SH for
\* every other prefix.
C13_PrefixTable ==
    npc = "parsed" /\ BareCode(raw) =>
        /\ parsed = Identifier(raw, TableExchange(raw))
        /\ code_to_ts_code(raw) = Identifier(raw, TableExchange(raw))

\* C20 as stated: every request draws only on rows of the user who makes it,
\* and no page is derived from another user's rows.
C20_OnlyOwnRows ==
    lastReq.handler # "none" => lastReq.sources \subseteq {lastReq.user}

\* the trade rows a step changes belong to the user of the request
OwnTradesOnly ==
    \A i \in TradeIds :
        trade_logs'[i] # trade_logs[i] => trade_logs[i].user_id = lastReq'.user

\* What does hold of C20: edit_trade and delete_trade read and change only
\* trade rows of the user who makes the request, and answer 404 or change
\* nothing for another user's trade; the fund page served to any user is
\* derived from that user's holding, from the trades of the user cwjcw and
\* from the holdings of all users.
TradesOwnFundShared ==
    /\ [][OwnTradesOnly]_vars
    /\ [](lastReq.handler \in {"edit_trade", "delete_trade"} =>
              lastReq.sources \subseteq {lastReq.user})
    /\ [](lastReq.handler = "fund_overview_view" =>
              /\ lastReq.sources \subseteq
                    {lastReq.user, BaseUser} \cup {u \in Users : fund_holdings[u] > 0}
              /\ navRecord.exists => BaseUser \in lastReq.sources)

\* u1 has edited an own trade and then opened the fund page, whose positions
\* come from the trades of cwjcw
C20_Witness ==
    /\ lastReq.user = "u1"
    /\ lastReq.handler = "fund_overview_view"
    /\ BaseUser \in lastReq.sources
    /\ navRecord.positions # {}
    /\ \E i \in TradeIds : trade_logs[i].user_id = "u1" /\ trade_logs[i].symbol = "s2"

\* C19: a run of fetch_today_fund_flow without a DSN ends with a non-zero
\* status and has issued no network request and no store operation, the
\* import of its modules included.
C19_NoDsnFailsFirst ==
    ftPc = "done" /\ ~osEnv.dsn => exitStatus # 0 /\ events = <<>>

\* a string that is six ASCII digits
IsCode(it) == it.str /\ Len(it.s) = 6 /\ IsAsciiDigits(it.s)

\* the file is missing, unparsable, or holds no list of codes that can be used
Unusable(file) ==
    \/ file.kind # "list"
    \/ file.items = <<>>
    \/ \A i \in DOMAIN file.items : ~IsCode(file.items[i])

\* C18: every consumer of data/all_codes.json that finds the file missing,
\* unparsable or without a usable list of codes gets its codes from a live
\* refetch of the list; it does not fail and does not go on without codes
\* unless the refetch itself does.
C18_RefetchOnBadCache ==
    lastLoad.consumer # "none" /\ Unusable(lastLoad.found) => lastLoad.refetched

\* the last writer call committed and found its key in the table
UpsertHit == lastUpsert.writer # "none" /\ lastUpsert.before # NoRow

\* the row the last writer call wrote last, and the row now stored
NewRow == lastUpsert.last
StoredRow == Stored(mysql[TableOf(lastUpsert.writer)])

\* C17 as stated: an upsert that hits an existing key overwrites every non-key
\* column of the stored row with the value of the new row, in every table.
C17_EveryColumnOverwritten ==
    UpsertHit =>
        \A c \in NonKeyCols(TableOf(lastUpsert.writer)) \cap DOMAIN NewRow :
            StoredRow[c] = NewRow[c]

\* the non-key columns an upsert on an existing key overwrites, per writer
OverwrittenBy(w) ==
    CASE w = "tx_save_rows" -> NonKeyCols("stock_daily_em") \ {"code6"}
      [] w = "save_price_rows" -> {"open", "close", "high", "low", "vol", "amount"}
      [] w = "save_flow_rows" -> {"main", "ultra_large", "large", "medium", "small"}
      [] OTHER -> NonKeyCols("stock_daily_baostock")

\* C17, amended: an upsert that hits an existing key overwrites the columns of
\* the writer's update list and leaves every other column as it was: all
\* non-key columns in stock_daily_baostock, all but 股票代码 in stock_daily_em,
\* the six price columns (save_price_rows) or the five flow columns
\* (save_flow_rows) in stock_minute_15m.
C17_UpdateListOverwritten ==
    UpsertHit =>
        LET w == lastUpsert.writer IN
        /\ \A c \in OverwrittenBy(w) : StoredRow[c] = NewRow[c]
        /\ \A c \in Cols(TableOf(w)) \ OverwrittenBy(w) :
                StoredRow[c] = lastUpsert.before[c]

\* a price row written over a row that had flow values: the prices are the new
\* ones, the flow values are still there although the new row carries None
C17_Witness ==
    /\ UpsertHit
    /\ lastUpsert.writer = "save_price_rows"
    /\ lastUpsert.before["main"] = "v1"
    /\ lastUpsert.before["open"] = "v1"
    /\ NewRow["open"] = "v2"
    /\ NewRow["main"] = SqlNull
    /\ StoredRow["open"] = "v2"
    /\ StoredRow["main"] = "v1"

\* C16: in run_full_history the buffer holds no more than the threshold
\* whenever the loop is about to take the next task result: a buffer that an
\* append has taken past the threshold is handed to the writer and emptied
\* within the same pass, and when that writer call raises no further result is
\* taken.
C16_FlushBeforeNext ==
    mode = "run_full_history" =>
        /\ runPc = "gather" => Len(flows_collected) <= FlushThreshold
        /\ \A k \in 1..Len(handed) :
              k < Len(handed) => /\ Len(handed[k].flows) > FlushThreshold
                                 /\ ~handed[k].raised

\* the first result took the buffer past the threshold and was flushed; the
\* second result is still to be consumed and the buffer is empty
C16_Witness ==
    /\ mode = "run_full_history"
    /\ runPc = "gather"
    /\ Len(handed) = 1
    /\ Len(handed[1].flows) > FlushThreshold
    /\ flows_collected = <<>>
    /\ \E i \in DOMAIN task : task[i].st = "settled" /\ task[i].flows # <<>>

\* the weekdays lo..hi in ascending order
RECURSIVE WeekdaysIn(_, _)
WeekdaysIn(lo, hi) ==
    IF hi < lo THEN <<>>
    ELSE WeekdaysIn(lo, hi - 1) \o (IF weekday(hi) < 5 THEN <<hi>> ELSE <<>>)

\* run_full_range has returned or raised
RangeOver == rgPc \in {"done", "aborted", "exit", "raised"}

\* the batches run so far are the weekdays from the earliest date on, one each
\* and in ascending order: up to the day before current inside the loop, up
\* to the end date after a return, up to the day that raised after an error
RangeBatches ==
    /\ rgPc = "loop" => batches = WeekdaysIn(start_date, current - 1)
    /\ rgPc = "done" => batches = WeekdaysIn(start_date, end_date)
    /\ rgPc = "raised" /\ start_date # Unset =>
            /\ batches = WeekdaysIn(start_date, current)
            /\ current <= end_date
    /\ start_date = Unset => batches = <<>>
    /\ start_date # Unset /\ end_date < start_date =>
            batches = <<>> /\ rgPc \in {"loop", "done"}

\* C14: run_full_range runs one batch for each weekday from the earliest date
\* to the end date, in ascending order, and for no other date (a batch that
\* raises is the last one); with an end date before the earliest date it runs
\* no batch and returns; and every call ends.
C14_OneBatchPerWeekday == [](RangeBatches) /\ <>(RangeOver)

\* a range from a Thursday to the Tuesday after it ran Thursday, Friday,
\* Monday and Tuesday and returned
C14_Witness ==
    /\ rgPc = "done"
    /\ start_date = 3
    /\ end_date = 8
    /\ batches = <<3, 4, 7, 8>>

\* every batch started so far was started at or after 16:00, on a weekday,
\* for the date of that day, and no date has two batches
SchedBatches ==
    /\ \A i \in 1..Len(started) :
            /\ started[i].at % DayTicks >= TargetTick
            /\ weekday(started[i].date) < 5
            /\ started[i].date = DateOf(started[i].at)
    /\ \A i, j \in 1..Len(started) : i < j => started[i].date < started[j].date

\* the step in which a KeyboardInterrupt ends the sleep
InterruptedSleep == schPc = "sleep" /\ schPc' = "stopped"

RECURSIVE Occurrences(_, _)
Occurrences(r, fs) ==
    IF fs = <<>> THEN 0
    ELSE (IF Head(fs) = r THEN 1 ELSE 0) + Occurrences(r, Tail(fs))

\* the records of the i-th of a sequence of record lists, summed over the sequence
RECURSIVE OccurrencesIn(_, _, _)
OccurrencesIn(r, lists, n) ==
    IF n = 0 THEN 0 ELSE OccurrencesIn(r, lists, n - 1) + Occurrences(r, lists[n])

\* the writer calls that were handed the profile of task i under its key
FlushesOfProfile(i) ==
    LET key == <<task[i].entry.stock, task[i].entry.exchange>> IN
    {k \in 1..Len(handed) :
        key \in DOMAIN handed[k].profiles /\ handed[k].profiles[key] = task[i].entry.profile}

\* C23: when run_full_history has returned and no writer call has raised,
\* every record a task returned was handed to the writer exactly once and
\* every profile a successful task returned was handed over in exactly one
\* flush, a last buffer of profiles without records included.
C23_NothingLostNothingTwice ==
    mode = "run_full_history" /\ runPc = "done"
            /\ (\A k \in 1..Len(handed) : ~handed[k].raised) =>
        \A i \in DOMAIN task :
            /\ \A j \in 1..Len(task[i].flows) :
                  OccurrencesIn(task[i].flows[j], [k \in 1..Len(handed) |-> handed[k].flows],
                                Len(handed)) = 1
            /\ task[i].entry # NoEntry => Cardinality(FlushesOfProfile(i)) = 1

\* run_full_history has returned after two flushes: one inside the loop, and
\* the last one with a profile and no record
C23_Witness ==
    /\ mode = "run_full_history"
    /\ runPc = "done"
    /\ Len(handed) = 2
    /\ ~handed[1].raised /\ ~handed[2].raised
    /\ Len(handed[1].flows) > FlushThreshold
    /\ handed[2].flows = <<>>
    /\ DOMAIN handed[2].profiles # {}

(***************************************************************************)
(* Properties of the routes of the RSS feed                                *)
(***************************************************************************)
\* the first segment of the last request is the one the policy asks for
PrefixMatches ==
    /\ feedRequest.token \in FeedTokens
    /\ feedRequest.prefix = PolicyPrefix(RSS_PREFIX, tokenOwner[feedRequest.token])

\* the last request reached generate_rss_response
ReachedFeed ==
    \/ feedRequest.route = "user_rss"
    \/ feedRequest.route = "prefixed_rss" /\ feedRequest.status \in {200, 429}

\* C30: a user's feed is served only for a URL whose prefix satisfies the
\* prefix policy (the owner's username when RSS_PREFIX is 'username',
\* otherwise the fixed RSS_PREFIX); for a valid token every route that
\* reaches generate_rss_response with a non-matching prefix answers 404.
C30_FeedOnlyUnderPrefixPolicy ==
    /\ feedRequest.status = 200 => PrefixMatches
    /\ ReachedFeed /\ feedRequest.token \in FeedTokens /\ ~PrefixMatches
          => feedRequest.status = 404

\* the part of C30 that holds: prefixed_rss serves the feed only under the
\* policy and answers 404 for a valid token with another prefix
C30_PrefixedRouteKeepsPolicy ==
    feedRequest.route = "prefixed_rss"
        => /\ feedRequest.status = 200 => PrefixMatches
           /\ feedRequest.token \in FeedTokens /\ ~PrefixMatches
                 => feedRequest.status = 404

\* user_rss served the feed of a user whose policy prefix is not u
C30_Witness ==
    /\ feedRequest.route = "user_rss"
    /\ feedRequest.status = 200
    /\ ~PrefixMatches

(***************************************************************************)
(* Properties of the holdings replayed from the trade log                  *)
(***************************************************************************)
\* C29: while _build_portfolio replays buy, sell and dividend rows every
\* holding keeps a quantity of at least 0 and has average cost 0 whenever
\* its quantity is 0; a sell of more than the held quantity leaves the
\* holding at zero; the returned holdings are the symbols with a quantity
\* above 0.
C29_HoldingsNeverNegative ==
    /\ \A s \in TradeSymbols :
          /\ holdings[s].qty >= 0
          /\ holdings[s].qty = 0 => holdings[s].avg_cost = NoAmount
    /\ lastTrade.action = "sell" /\ lastTrade.quantity > lastTrade.available
          => /\ holdings[lastTrade.symbol].qty = 0
             /\ holdings[lastTrade.symbol].avg_cost = NoAmount
    /\ bookPc = "returned"
          => returned = {s \in TradeSymbols : holdings[s].qty > 0}

\* two symbols were bought, more than held was sold of one of them, and the
\* holdings returned are the other symbol alone
C29_Witness ==
    /\ bookPc = "returned"
    /\ replayed = 3
    /\ lastTrade.action = "sell"
    /\ lastTrade.available > 0
    /\ lastTrade.quantity > lastTrade.available
    /\ returned = TradeSymbols \ {lastTrade.symbol}

(***************************************************************************)
(* Properties of the minute feed of rss_fund_flow                          *)
(***************************************************************************)
\* the items of a sequence of guids carry distinct guids
NoSharedGuid(items) ==
    \A i, j \in 1..Len(items) : i # j => items[i] # items[j]

\* the last run kept the newest items: what it removed is the front of the
\* file before trimming, and the file is the rest
OldestRemoved ==
    \E k \in 0..Len(lastRun.grown) :
        /\ rssFile = SubSeq(lastRun.grown, k + 1, Len(lastRun.grown))
        /\ k > 0 => Len(rssFile) = max_items

\* C28: after any sequence of append_items calls the RSS file holds at most
\* max_items items, no two items share a guid, and when the cap is exceeded
\* the items removed are the oldest ones.
C28_CapDistinctGuidsOldestOut ==
    /\ Len(rssFile) <= max_items
    /\ NoSharedGuid(rssFile)
    /\ OldestRemoved

\* the part of C28 that holds: the cap, the oldest items removed first, no
\* item appended whose guid the file already had, and distinct guids after a
\* run whose items carry distinct guids on a file with distinct guids
C28_CapOldestOutSeenSkipped ==
    /\ Len(rssFile) <= max_items
    /\ OldestRemoved
    /\ \A i \in (Len(lastRun.before) + 1)..Len(lastRun.grown) :
          lastRun.grown[i] \notin read_existing_guids(lastRun.before)
    /\ NoSharedGuid(lastRun.before) /\ NoSharedGuid(lastRun.items)
          => NoSharedGuid(rssFile)

\* a run that went over the cap and removed the oldest item, with an item
\* skipped because the file had its guid
C28_Witness ==
    /\ feedRuns >= 2
    /\ Len(lastRun.grown) > max_items
    /\ Len(rssFile) = max_items
    /\ \E i \in 1..Len(lastRun.items) :
          lastRun.items[i] \in read_existing_guids(lastRun.before)

(***************************************************************************)
(* Properties of the daily snapshot worker                                 *)
(***************************************************************************)
\* C27: a pass of the worker's loop runs the snapshots of all users unless a
\* pass for the same date has completed without raising before, in which
\* case it runs nothing; however often _start_daily_snapshot_worker is
\* called, at most one worker thread is started.
C27_OnePassPerDateOneWorker ==
    /\ threads <= 1
    /\ startCalls >= 1 => threads = 1
    /\ \A i \in 1..Len(snapLog) :
          snapLog[i].result = "skipped"
              <=> \E j \in 1..(i - 1) :
                      snapLog[j].date = snapLog[i].date /\ snapLog[j].result = "ok"

\* after two calls of the starter, the worker failed once on the first date,
\* completed on its next pass, skipped the pass after it and ran again on the
\* next date
C27_Witness ==
    /\ startCalls >= 2
    /\ threads = 1
    /\ Len(snapLog) = 4
    /\ snapLog[1].date = 0 /\ snapLog[1].result = "raised"
    /\ snapLog[2].date = 0 /\ snapLog[2].result = "ok"
    /\ snapLog[3].date = 0 /\ snapLog[3].result = "skipped"
    /\ snapLog[4].date = 1 /\ snapLog[4].result = "ok"

(***************************************************************************)
(* Properties of the alert levels of serverchan_fund_alert                 *)
(***************************************************************************)
\* C26: over the polls of one monitor run notified[code] never decreases; a
\* code is triggered only with a level of at least 1 that is above every
\* level it was triggered with before; no (code, level) pair is triggered
\* twice.
C26_LevelsOnlyRise ==
    /\ [][\A c \in AlertCodes : notified'[c] >= notified[c]]_vars
    /\ [](\A c \in lastPoll.triggered :
            /\ lastPoll.floors[c] >= 1
            /\ lastPoll.floors[c] > lastPoll.before[c]
            /\ \A p \in alerted : p[1] = c /\ p[2] # lastPoll.floors[c]
                                        => p[2] < lastPoll.floors[c]
            /\ notified[c] = lastPoll.floors[c])
    /\ [](repeated = {})

\* a code was triggered at level 1 and later at level 2, and a poll at level 1
\* in between or after triggered nothing
C26_Witness ==
    /\ <<"600519", 1>> \in alerted
    /\ <<"600519", 2>> \in alerted
    /\ notified["600519"] = 2
    /\ lastPoll.kind = "ranking"
    /\ lastPoll.floors["600519"] = 1
    /\ lastPoll.triggered = {}

(***************************************************************************)
(* Properties of the command line of daily_bulk_flow                       *)
(***************************************************************************)
\* the mode the precedence full-history > fill-to > date > schedule > today
\* gives; a string argument counts when it has a value
ModeByPrecedence(args) ==
    IF args.full_history THEN [fn |-> "run_full_history", date |-> ""]
    ELSE IF args.fill_to.given /\ args.fill_to.text # ""
      THEN [fn |-> "run_full_range", date |-> args.fill_to.text]
    ELSE IF args.date.given /\ args.date.text # ""
      THEN [fn |-> "run_for_date", date |-> args.date.text]
    ELSE IF args.schedule THEN [fn |-> "scheduler_loop", date |-> ""]
    ELSE [fn |-> "run_for_date", date |-> "today"]

\* C25: whatever the combination of --full-history, --fill-to, --date and
\* --schedule, main enters exactly one run mode, the first in the order
\* full-history, fill-to, date, schedule, once-for-today.
C25_ExactlyOneModeByPrecedence ==
    cliPc = "called" =>
        /\ Len(entered) = 1
        /\ entered[1].fn = ModeByPrecedence(cliArgs).fn
        /\ entered[1].date = ModeByPrecedence(cliArgs).date

\* all four flags were given, and the full history is the one mode run
C25_Witness ==
    /\ cliPc = "called"
    /\ cliArgs.full_history /\ cliArgs.schedule
    /\ cliArgs.fill_to = Arg("2024-01-05") /\ cliArgs.date = Arg("2024-01-02")
    /\ Len(entered) = 1
    /\ entered[1].fn = "run_full_history"

(***************************************************************************)
(* Properties of the rate limiter of the RSS routes                        *)
(***************************************************************************)
\* the requests a key has accepted with a time of arrival in lo..hi
AcceptedIn(k, lo, hi) ==
    {i \in 1..Len(accepted[k]) : lo <= accepted[k][i] /\ accepted[k][i] <= hi}

\* C24: whatever the interleaving, a key accepts no more than
\* RATE_LIMIT_REQUESTS requests in any window of RATE_LIMIT_WINDOW seconds,
\* and a refused request leaves the bucket of its key as it was.
WindowKept ==
    \A k \in RateKeys, t \in 0..MaxRssClock :
        Cardinality(AcceptedIn(k, t, t + WindowTicks)) <= limitR

\* a step in which a request gets 429
Refusal == \E r \in RssRequests : req[r].status # 429 /\ req'[r].status = 429

C24_WindowNeverExceeded ==
    [](WindowKept) /\ [][Refusal => buckets' = buckets]_vars

\* the parts of C24 that hold: a refusal leaves the bucket alone, a bucket
\* never holds more than the limit, and with a limit of one request the
\* arrivals a key accepts are more than a window apart
C24_RefusalLeavesBucket ==
    /\ [][Refusal => buckets' = buckets]_vars
    /\ [](\A k \in RateKeys : Len(buckets[k]) <= limitR)
    /\ [](limitR = 1 => WindowKept)

\* a token has accepted three requests that arrived within one window while
\* the limit is two
C24_Witness ==
    /\ limitR = 2
    /\ \E t \in 0..MaxRssClock :
          Cardinality(AcceptedIn("tok:alpha", t, t + WindowTicks)) = 3

(***************************************************************************)
(* Properties of the retries of fetch_all_stock_codes                      *)
(***************************************************************************)
RECURSIVE Pow2(_)
Pow2(k) == IF k = 0 THEN 1 ELSE 2 * Pow2(k - 1)

\* C22: a page is asked for at most 5 times; the k-th retry waits
\* min(2^(k-1), 8) seconds before jitter, never more than 8; the failure of
\* the fifth attempt leaves the function and nothing is asked for after it.
C22_FiveAttemptsCappedBackoff ==
    /\ gets <= 5
    /\ Len(sleeps) <= 4
    /\ \A k \in 1..Len(sleeps) :
          /\ sleeps[k].base = (IF Pow2(k - 1) < 8 THEN Pow2(k - 1) ELSE 8)
          /\ sleeps[k].base <= 8
    /\ pagePc = "try" => gets = Len(sleeps) /\ gets < 5
    /\ pagePc = "raised" => gets = 5 /\ ~ENABLED NextPages

\* the fifth attempt for a page has failed after waits of 1, 2, 4 and 8 seconds
C22_Witness ==
    /\ pagePc = "raised"
    /\ pn = 2
    /\ gets = 5
    /\ sleeps = <<[base |-> 1, jitter |-> 0], [base |-> 2, jitter |-> 50],
                  [base |-> 4, jitter |-> 25], [base |-> 8, jitter |-> 50]>>

(***************************************************************************)
(* Properties of the mappers' numeric conversions                          *)
(***************************************************************************)
\* a cell without a usable number: missing (None, or the NaN of a DataFrame),
\* a blank string, a string that does not write a decimal number, a list
NotNumeric(c) ==
    \/ c \in {NoneV, NaNV, ListV}
    \/ /\ c.t = "str"
       /\ LET t == Strip(c.s)
              body == IF Len(t) > 0 /\ t[1] \in {"+", "-"} THEN Tail(t) ELSE t
          IN  ~IsDecimal(body)

\* C21: a missing, blank or non-numeric cell is mapped to null by every
\* converter: never an exception, never zero, never another value.
C21_UnusableCellIsNull ==
    fieldPc = "mapped" /\ NotNumeric(cell) => mapped.out = Null

\* the part of C21 that holds: None, a blank string and any value float()
\* rejects are mapped to null, and no cell makes a converter raise
C21_RejectedCellIsNull ==
    fieldPc = "mapped" =>
        /\ mapped.out.t \in {"null", "real", "nan"}
        /\ NotNumeric(cell) => mapped.out # Real(0)
        /\ (cell = NoneV \/ (cell.t = "str" /\ Strip(cell.s) = <<>>)
                \/ (cell.t # "none" /\ float(cell).t = "ValueError"))
              => mapped.out = Null

\* a cell that holds NaN has been through to_float
C21_Witness ==
    fieldPc = "mapped" /\ cell = NaNV /\ mapped.by = "to_float" /\ mapped.out = NaNV

(***************************************************************************)
(* Properties of the orchestrator and of the loop drivers                  *)
(***************************************************************************)
\* the key a code gets in the profile map
KeyOf(code) == <<parse_stock_code(code).code, parse_stock_code(code).exchange>>

\* the tasks that gave up: they have ended and their last attempt failed
GaveUp == {i \in DOMAIN task : /\ task[i].st \in {"settled", "consumed"}
                                /\ task[i].log # <<>>
                                /\ task[i].log[Len(task[i].log)] = "error"}

\* run_for_date has gone through its writer step
RunForDateOver ==
    /\ mode \in {"run_for_date", "scheduler_loop"}
    /\ DOMAIN task # {}
    /\ as_completed_exhausted(task)
    /\ runPc \in {"done", "sleeping", "raised"}

\* the records and the profile map the writer was given by the run, nothing if
\* it was not called
HandedFlows == IF handed = <<>> THEN <<>> ELSE handed[1].flows
HandedProfiles == IF handed = <<>> THEN NoProfiles ELSE handed[1].profiles

\* the records of the list fs that belong to the code
RecordsFor(fs, code) == {k \in 1..Len(fs) : fs[k].code = KeyOf(code)[1]}

\* C2: when exactly one symbol of a run_for_date batch has failed on every
\* attempt, the run still reaches its writer step; what the writer is handed
\* covers every other symbol (its profile entry and each of its records, once)
\* and nothing of the failing symbol, and the failure is found in the warning
\* log, for the failing symbol only.  No task failure ends a run: a run that
\* ends with an error has had a writer error.
C2_OneFailureIsolated ==
    /\ runPc \in {"unwinding", "raised"} => writerErrors > 0
    /\ RunForDateOver /\ Cardinality(GaveUp) = 1 =>
         LET f == CHOOSE i \in GaveUp : TRUE
             others == DOMAIN task \ {f}
         IN  /\ Len(task[f].log) = 3
             /\ \A k \in 1..3 : task[f].log[k] = "error"
             /\ Len(handed) <= 1
             /\ DOMAIN HandedProfiles = {KeyOf(codes[j]) : j \in others}
             /\ \A j \in others :
                  /\ HandedProfiles[KeyOf(codes[j])] = task[j].entry.profile
                  /\ Cardinality(RecordsFor(HandedFlows, codes[j])) = Len(task[j].flows)
                  /\ \A k \in 1..Len(task[j].flows) :
                       \E m \in 1..Len(HandedFlows) : HandedFlows[m] = task[j].flows[k]
                  /\ <<codes[j], "failed">> \notin warnings
             /\ RecordsFor(HandedFlows, codes[f]) = {}
             /\ <<codes[f], "failed">> \in warnings

\* a batch of two symbols has ended normally: the first failed three times, the
\* second gave a record, which the writer has stored
C2_Witness ==
    /\ mode = "run_for_date"
    /\ runPc = "done"
    /\ Len(codes) = 2
    /\ GaveUp = {1}
    /\ Len(handed) = 1
    /\ ~handed[1].raised
    /\ Len(handed[1].flows) = 1
    /\ db.flow # {}

\* the number of records the tasks returned
RECURSIVE ReturnedCount(_)
ReturnedCount(i) == IF i = 0 THEN 0 ELSE Len(task[i].flows) + ReturnedCount(i - 1)

\* C4: in run_for_date, whatever the order in which the tasks run and finish,
\* the writer is called at most once and only when every submitted task has
\* finished and its result was merged; the record list it gets holds the
\* records of all tasks, each exactly once, and its profile map holds exactly
\* the entries of the tasks that succeeded.
C4_GatherBarrier ==
    mode \in {"run_for_date", "scheduler_loop"} /\ handed # <<>> =>
        /\ Len(handed) = 1
        /\ \A i \in DOMAIN task : task[i].st = "consumed"
        /\ Len(handed[1].flows) = ReturnedCount(Len(codes))
        /\ \A i \in DOMAIN task :
             /\ Cardinality(RecordsFor(handed[1].flows, codes[i])) = Len(task[i].flows)
             /\ \A k \in 1..Len(task[i].flows) :
                  \E m \in 1..Len(handed[1].flows) : handed[1].flows[m] = task[i].flows[k]
        /\ DOMAIN handed[1].profiles = {KeyOf(codes[i]) : i \in DOMAIN task \ GaveUp}
        /\ \A i \in DOMAIN task \ GaveUp :
             handed[1].profiles[KeyOf(codes[i])] = task[i].entry.profile

\* two tasks ran side by side and the second finished and was merged first,
\* after a retry: the writer got the records in the order of completion
C4_Witness ==
    /\ mode = "run_for_date"
    /\ pool = 2
    /\ Len(codes) = 2
    /\ runPc = "done"
    /\ Len(handed) = 1
    /\ Len(handed[1].flows) = 2
    /\ handed[1].flows[1].code = KeyOf(codes[2])[1]
    /\ handed[1].flows[2].code = KeyOf(codes[1])[1]
    /\ Len(task[1].log) = 2

\* what a task's attempts look like under a limit: failed attempts, then at
\* most one successful attempt, which is the last; a task is recorded as failed
\* after exactly limit failed attempts, recorded in the warning log, and a task
\* never ends by raising
AttemptsWithin(i, limit) ==
    LET t == task[i] IN
    /\ Len(t.log) <= limit
    /\ \A k \in 1..(Len(t.log) - 1) : t.log[k] = "error"
    /\ t.st \in {"queued", "running", "settled", "consumed"}
    /\ t.st = "queued" => t.log = <<>>
    /\ t.st = "running" => Len(t.log) < limit /\ \A k \in 1..Len(t.log) : t.log[k] = "error"
    /\ t.st \in {"settled", "consumed"} =>
         /\ Len(t.log) >= 1
         /\ IF t.entry = NoEntry
              THEN /\ Len(t.log) = limit
                   /\ t.log[Len(t.log)] = "error"
                   /\ <<codes[i], "failed">> \in warnings
              ELSE /\ t.log[Len(t.log)] = "ok"
                   /\ <<codes[i], "failed">> \notin warnings

\* C6 as the claim states it: three attempts in run_for_date and in
\* run_full_history alike
C6_ThreeAttemptsInBothRuns ==
    \A i \in DOMAIN task : AttemptsWithin(i, 3)

\* C6: a task of run_for_date makes up to 3 attempts, stopping at the first
\* success, and is recorded as failed after the third failure; a task of
\* run_full_history makes one attempt and is recorded as failed when that
\* attempt fails; in both the failure is logged and never raised out of the task.
C6_AttemptsPerRun ==
    \A i \in DOMAIN task :
        AttemptsWithin(i, IF mode = "run_full_history" THEN 1 ELSE 3)

\* in run_for_date one task succeeded at its third attempt and another was
\* recorded as failed after three, and the run went on to its end
C6_Witness ==
    /\ mode = "run_for_date"
    /\ runPc = "done"
    /\ \E i, j \in DOMAIN task :
         /\ task[i].log = <<"error", "error", "ok">>
         /\ task[j].log = <<"error", "error", "error">>
         /\ task[j].entry = NoEntry

====
